---- MODULE Spec2Model ----
(***************************************************************************)
(* Code Sergeant: the Judgment Engine (judge.py), the Pomodoro Timer       *)
(* (pomodoro.py) and the Session Controller with its workers and Drill     *)
(* Loop (controller.py, motivation_monitor.py), as state machines.         *)
(*                                                                         *)
(* Five specifications share this module:                                  *)
(*   SpecJudge     calls of ActivityJudge.judge() on arbitrary inputs      *)
(*   SpecPomodoro  the PomodoroTimer with its tick-loop threads            *)
(*   SpecSession   the AppController, its workers and the Drill Loop       *)
(*   SpecReminder  one ReminderWorker and its clock                        *)
(*   SpecStats     the AppController's goal, SessionStats and judgments    *)
(* Times are whole seconds; confidences are hundredths (0.95 is 95).       *)
(***************************************************************************)
EXTENDS Integers, Sequences, FiniteSets, TLC

VARIABLES
    \* ---- ActivityJudge (judge.py) ----
    activity_pattern,            \* self.activity_pattern: Seq of "app:classification"
    consecutive_off_task_count,  \* self.consecutive_off_task_count
    backend,                     \* "ai_client", "ollama" (legacy client) or "none"
    has_personality,             \* self.personality_manager is not None
    \* ---- the last judge() call, as its caller saw it ----
    jn,                          \* judge() calls made so far
    jin,                         \* arguments of the last call
    jout,                        \* the Judgment it returned
    jcalls,                      \* backend responses consumed by the last call, in order
    \* ---- PomodoroTimer (pomodoro.py) ----
    current_state,               \* state.current_state
    time_remaining_seconds,      \* state.time_remaining_seconds
    is_paused,                   \* state.is_paused
    pomodoros_completed,         \* state.pomodoros_completed
    timer_lock,                  \* holder of self._lock (a threading.Lock), or Free
    timer_stop_event,            \* self._stop_event.is_set()
    timer_thread,                \* self._timer_thread: a thread id, or NoThread
    pomo_pc,                     \* where the caller (Caller) and every tick thread stand
    pomo_op,                     \* the control call the caller is inside, or made last
    fired,                       \* callbacks fired by the last step, in order
    period_tickers,              \* tick threads that have counted the current period down
    \* ---- AppController sessions (controller.py, motivation_monitor.py) ----
    session_active,              \* state.session_active
    stop_event,                  \* self.stop_event.is_set(), shared by every session's workers
    session_no,                  \* sessions started so far; the current session's threads
    workers_pc,                  \* where each worker thread of each session stands
    mm_stop_event,               \* motivation_monitor._stop_event.is_set()
    event_queue,                 \* self.event_queue
    current_activity,            \* self.current_activity is not None
    last_judgment,               \* self.last_judgment: its classification, or "none"
    last_judgment_obj,           \* state.last_judgment_obj: its classification, or "none"
    drill_pc,                    \* where the thread self.drill_worker stands
    drill_stop_event,            \* self.drill_stop_event.is_set()
    ctl,                         \* where the controller thread stands
    ctl_op,                      \* the call or handler the controller thread is inside
    ctl_class,                   \* classification of the judgment being handled
    restart,                     \* end_session was called by start_session
    cancel_calls,                \* tts_service.cancel_all() calls of the current handler
    drill_alive_at_start,        \* the drill worker was alive when the handler began
    state_writers,               \* threads that have written session state
    \* ---- ReminderWorker (reminders.py) ----
    rem_intervals,               \* self.intervals
    reminder_times,              \* the local list reminder_times of run()
    rem_pc,                      \* where the thread running run() stands
    rem_clock,                   \* time.time()
    rem_start,                   \* the local start_time of run()
    rem_current_time,            \* the local current_time of the last pass
    rem_wake,                    \* when the pending stop_event.wait() times out
    rem_stop,                    \* self.stop_event.is_set()
    rem_events,                  \* events the worker has put on the queue, in order
    \* ---- session accounting (controller.py) ----
    st_session_active,           \* state.session_active
    goal,                        \* state.goal, "None" for None
    stats,                       \* state.stats: the SessionStats object
    st_sessions,                 \* sessions started so far
    st_ctl,                      \* where the controller thread stands
    st_pending,                  \* the goal argument of the start_session call under way
    st_restart,                  \* the end_session under way was called by start_session
    st_stop_event,               \* self.stop_event.is_set()
    st_queue,                    \* self.event_queue
    st_current_activity,         \* self.current_activity
    st_last_judgment_obj,        \* state.last_judgment_obj (state.last_judgment is its text)
    st_last_yell_time,           \* self.last_yell_time
    st_window,                   \* what native_monitor.get_current_activity() returns now
    st_windows,                  \* the windows the user has been at, in order
    poller,                      \* activity_poller_loop: position and last_activity
    judge_worker,                \* judge_worker_loop: position and locals
    st_cycles,                   \* judging cycles completed so far
    st_drill,                    \* the drill worker: "running" while its thread is alive
    st_drill_stop,               \* self.drill_stop_event.is_set()
    st_timer,                    \* the Pomodoro timer: stopped, work, paused or break
    st_timer_count,              \* pomodoro.state.pomodoros_completed
    session_logs,                \* the session logs written, in order: goal and times
    st_off_handled,              \* off_task judgment_updates handled so far
    st_calls,                    \* change_goal / report_distraction / start_pomodoro calls made
    \* ---- the recency buffers (judge.py, controller.py) ----
    activity_history,            \* controller.activity_history
    goal_drift,                  \* what the last detect_goal_drift() call returned
    recorded,                    \* judgments tracked and activity updates handled so far
    \* ---- MotivationMonitor (motivation_monitor.py) ----
    mon_current_state,           \* self.current_state
    mon_focus_minutes,           \* focus_minutes of the last check
    mon_spoken,                  \* the phrases given to tts_service.speak, in order
    mon_checks,                  \* _check_motivation calls made so far
    \* ---- exceptions in the controller's workers (controller.py) ----
    worker_errors                \* exceptions raised so far in the poller and in the judging worker

judgeVars == <<activity_pattern, consecutive_off_task_count, backend, has_personality,
               jn, jin, jout, jcalls>>

pomoVars == <<current_state, time_remaining_seconds, is_paused, pomodoros_completed,
              timer_lock, timer_stop_event, timer_thread, pomo_pc, pomo_op, fired,
              period_tickers>>

sessVars == <<session_active, stop_event, session_no, workers_pc, mm_stop_event,
              event_queue, current_activity, last_judgment, last_judgment_obj, drill_pc,
              drill_stop_event, ctl, ctl_op, ctl_class, restart, cancel_calls,
              drill_alive_at_start, state_writers>>

remVars == <<rem_intervals, reminder_times, rem_pc, rem_clock, rem_start,
             rem_current_time, rem_wake, rem_stop, rem_events>>

acctVars == <<st_session_active, goal, stats, st_sessions, st_ctl, st_pending, st_restart,
              st_stop_event, st_queue, st_current_activity, st_last_judgment_obj,
              st_last_yell_time, st_window, st_windows, poller, judge_worker, st_cycles,
              st_drill, st_drill_stop, st_timer, st_timer_count, session_logs,
              st_off_handled, st_calls>>

recencyVars == <<activity_history, goal_drift, recorded>>

monVars == <<mon_current_state, mon_focus_minutes, mon_spoken, mon_checks>>

errVars == <<worker_errors>>

\* what a step of one component leaves alone
notJudgeVars == <<pomoVars, sessVars, remVars, acctVars, recencyVars, monVars, errVars>>
notPomoVars == <<judgeVars, sessVars, remVars, acctVars, recencyVars, monVars, errVars>>
notSessVars == <<judgeVars, pomoVars, remVars, acctVars, recencyVars, monVars, errVars>>
notRemVars == <<judgeVars, pomoVars, sessVars, acctVars, recencyVars, monVars, errVars>>
notAcctVars == <<judgeVars, pomoVars, sessVars, remVars, recencyVars, monVars, errVars>>

vars == <<judgeVars, pomoVars, sessVars, remVars, acctVars, recencyVars, monVars, errVars>>

-----------------------------------------------------------------------------
(* Strings.  str.lower() and the substring test `kw in text`.              *)

UpperCase == "ABCDEFGHIJKLMNOPQRSTUVWXYZ"
LowerCase == "abcdefghijklmnopqrstuvwxyz"

LowerChar(c) ==
    IF \E i \in 1..Len(UpperCase) : SubSeq(UpperCase, i, i) = c
    THEN LET i == CHOOSE k \in 1..Len(UpperCase) : SubSeq(UpperCase, k, k) = c
         IN  SubSeq(LowerCase, i, i)
    ELSE c

RECURSIVE Lower(_)
Lower(s) ==
    IF Len(s) = 0 THEN ""
    ELSE LowerChar(SubSeq(s, 1, 1)) \o Lower(SubSeq(s, 2, Len(s)))

\* Python's `kw in text` on strings
Contains(text, kw) ==
    \E i \in 1..(Len(text) - Len(kw) + 1) : SubSeq(text, i, i + Len(kw) - 1) = kw

ContainsAny(text, kws) == \E k \in 1..Len(kws) : Contains(text, kws[k])

-----------------------------------------------------------------------------
(* Data model (models.py)                                                  *)

Classifications == {"on_task", "off_task", "idle", "unknown", "thinking"}
Actions == {"none", "warn", "yell"}

\* last_yell_time: Optional[float] = None
NoneTime == -1

\* Python truthiness of an Optional[float]: None and 0.0 are falsy
Truthy(t) == t # NoneTime /\ t # 0

Judgment(c, conf, say, a) ==
    [classification |-> c, confidence |-> conf, say |-> say, action |-> a]

NoJudgment == [classification |-> "none", confidence |-> 0, say |-> "", action |-> "none"]

\* self.current_activity = None
NoActivity == [app |-> "", title |-> "", is_afk |-> FALSE, is_thinking |-> FALSE,
               idle_duration_seconds |-> 0]

\* a backend call that gave no usable answer: "error", "not_json", "not_object"
Failure(kind) ==
    [kind |-> kind, classification |-> "absent", conf_kind |-> "absent",
     confidence |-> 0, action |-> "absent", say |-> ""]

\* time.time() at a judge() call
NowValues == {100}

\* a phrase picked by random.choice from a non-empty list: only its type is kept
Phrase(phrase_type) == "<" \o phrase_type \o ">"

\* PersonalityManager.get_judgment_phrase
get_judgment_phrase(j) ==
    IF j.action = "yell" THEN Phrase("off_task_yell")
    ELSE IF j.action = "warn" THEN Phrase("off_task_warning")
    ELSE IF j.classification = "on_task" THEN Phrase("on_task")
    ELSE IF j.classification = "thinking" THEN Phrase("thinking")
    ELSE ""

-----------------------------------------------------------------------------
(* ActivityJudge                                                           *)

DISTRACTION_KEYWORDS ==
    << "instagram", "facebook", "twitter", "x.com", "tiktok", "reddit",
       "snapchat", "linkedin", "threads", "mastodon", "bluesky",
       "youtube", "netflix", "hulu", "disney+", "hbo", "twitch",
       "vimeo", "dailymotion", "prime video",
       "discord", "whatsapp", "telegram", "messenger",
       "spotify", "apple music", "soundcloud",
       "steam", "epic games", "game",
       "espn", "sports" >>

entertainment_keywords ==
    << "youtube", "netflix", "hulu", "disney+", "hbo", "prime video",
       "twitch", "vimeo", "dailymotion",
       "twitter", "x.com", "facebook", "instagram", "reddit", "tiktok",
       "snapchat", "linkedin", "threads", "mastodon", "bluesky",
       "discord", "whatsapp", "telegram", "messenger", "imessage",
       "spotify", "apple music", "soundcloud", "pandora",
       "news", "espn", "sports", "gaming", "game",
       "amazon", "ebay", "shopping", "store" >>

productive_keywords ==
    << "code", "cursor", "vscode", "xcode", "sublime", "vim", "emacs", "neovim",
       "terminal", "iterm", "console", "shell",
       "docs", "documentation", "stackoverflow", "github", "gitlab", "bitbucket",
       "jira", "confluence", "notion", "obsidian",
       "figma", "sketch", "photoshop", "illustrator" >>

\* (app, title) pairs of the windows the sensor reports
Windows ==
    { <<"Twitter", "Home">>, <<"Steam", "Library">>,
      <<"Cursor", "main.py">>, <<"Finder", "Documents">> }

\* f"{activity.app} {activity.title}"
ActivityContext(activity) == activity.app \o " " \o activity.title

\* `any(kw in text.lower() for kw in kws)`, computed once per window
DistractionTable ==
    [w \in Windows |-> ContainsAny(Lower(w[1] \o " " \o w[2]), DISTRACTION_KEYWORDS)]
EntertainmentTable ==
    [w \in Windows |->
        ContainsAny(Lower(w[1]) \o " " \o Lower(w[2]), entertainment_keywords)]
ProductiveTable ==
    [w \in Windows |->
        ContainsAny(Lower(w[1]) \o " " \o Lower(w[2]), productive_keywords)]

\* the keyword loop of _validate_judgment on f"{app} {title}"
HasDistractionKeyword(app, title) ==
    IF <<app, title>> \in Windows THEN DistractionTable[<<app, title>>]
    ELSE ContainsAny(Lower(app \o " " \o title), DISTRACTION_KEYWORDS)

\* is_entertainment and is_productive of _judge_fallback
IsEntertainment(app, title) ==
    IF <<app, title>> \in Windows THEN EntertainmentTable[<<app, title>>]
    ELSE ContainsAny(Lower(app) \o " " \o Lower(title), entertainment_keywords)

IsProductive(app, title) ==
    IF <<app, title>> \in Windows THEN ProductiveTable[<<app, title>>]
    ELSE ContainsAny(Lower(app) \o " " \o Lower(title), productive_keywords)

\* outcome of a step that may raise: ok = FALSE is the exception
Ok(j) == [ok |-> TRUE, j |-> j]
Raised == [ok |-> FALSE, j |-> NoJudgment]

\* _validate_judgment without the enum checks: what the backend wrote is kept
ValidateUnsanitized(d, activity) ==
    IF d.kind = "not_object" \/ d.conf_kind = "bad" THEN Raised
    ELSE
    LET c0 == IF d.classification = "absent" THEN "unknown" ELSE d.classification
        got_f == IF d.conf_kind = "absent" THEN 50 ELSE d.confidence
        min1 == IF got_f < 100 THEN got_f ELSE 100
        f0 == IF min1 > 0 THEN min1 ELSE 0
        a0 == IF d.action = "absent" THEN "none" ELSE d.action
        override == /\ HasDistractionKeyword(activity.app, activity.title)
                    /\ c0 # "off_task"
    IN  Ok(Judgment(IF override THEN "off_task" ELSE c0,
                    IF override THEN 95 ELSE f0,
                    IF override THEN Phrase("off_task_yell") ELSE d.say,
                    IF override THEN "yell" ELSE a0))

\* _validate_judgment: d is the parsed response.  A response that is JSON but
\* no object has no .get (AttributeError); float() of a non-number raises.
_validate_judgment(d, activity) ==
    IF d.kind = "not_object" \/ d.conf_kind = "bad" THEN Raised
    ELSE
    LET got_c == IF d.classification = "absent" THEN "unknown" ELSE d.classification
        c0    == IF got_c \notin Classifications THEN "unknown" ELSE got_c
        got_f == IF d.conf_kind = "absent" THEN 50 ELSE d.confidence
        min1  == IF got_f < 100 THEN got_f ELSE 100
        f0    == IF min1 > 0 THEN min1 ELSE 0
        got_a == IF d.action = "absent" THEN "none" ELSE d.action
        a0    == IF got_a \notin Actions THEN "none" ELSE got_a
        say0  == d.say
        override == /\ ActivityContext(activity) # ""
                    /\ HasDistractionKeyword(activity.app, activity.title)
                    /\ c0 # "off_task"
        c1    == IF override THEN "off_task" ELSE c0
        f1    == IF override THEN 95 ELSE f0
        a1    == IF override THEN "yell" ELSE a0
        say1  == IF override THEN Phrase("off_task_yell") ELSE say0
        say2  == IF say1 = "" /\ a1 # "none"
                 THEN IF a1 = "yell" THEN Phrase("off_task_yell")
                      ELSE Phrase("off_task_warning")
                 ELSE say1
    IN  Ok(Judgment(c1, f1, say2, a1))

\* _judge_fallback: the rule-based classifier
_judge_fallback(activity) ==
    LET is_entertainment == IsEntertainment(activity.app, activity.title)
        is_productive == IsProductive(activity.app, activity.title)
    IN  IF is_entertainment
        THEN Judgment("off_task", 90, Phrase("off_task_yell"), "yell")
        ELSE IF is_productive
        THEN IF activity.is_thinking
                \/ (activity.idle_duration_seconds >= 30
                    /\ activity.idle_duration_seconds <= 180)
             THEN Judgment("thinking", 70, "", "none")
             ELSE Judgment("on_task", 80, "", "none")
        ELSE Judgment("unknown", 50, Phrase("off_task_warning"), "warn")

\* _judge_with_llm retrying after any failure of the first call, not only after
\* a JSON parse failure
JudgeWithLlmRetryAll(activity, be, r1, r2) ==
    IF be = "none" THEN [res |-> Raised, calls |-> 0]
    ELSE IF r1.kind \in {"error", "not_json"}
         THEN IF r2.kind \in {"error", "not_json"}
              THEN [res |-> Raised, calls |-> 2]
              ELSE [res |-> _validate_judgment(r2, activity), calls |-> 2]
    ELSE [res |-> _validate_judgment(r1, activity), calls |-> 1]

\* _judge_with_llm: r1 and r2 are what the backend answers to the first call and
\* to the retry.  Returns the outcome and the number of backend calls made.
\* The ai_client branch and the legacy Ollama branch have the same shape.
_judge_with_llm(activity, be, r1, r2) ==
    IF be = "none" THEN [res |-> Raised, calls |-> 0]
    ELSE IF r1.kind = "error" THEN [res |-> Raised, calls |-> 1]
    ELSE IF r1.kind = "not_json"           \* json.JSONDecodeError: retry once
         THEN IF r2.kind \in {"error", "not_json"}
              THEN [res |-> Raised, calls |-> 2]
              ELSE [res |-> _validate_judgment(r2, activity), calls |-> 2]
    ELSE [res |-> _validate_judgment(r1, activity), calls |-> 1]

\* the cooldown step of judge()
ApplyCooldown(j, last_yell_time, cooldown_seconds, now) ==
    IF j.action = "yell" /\ Truthy(last_yell_time)
       /\ now - last_yell_time < cooldown_seconds
    THEN [j EXCEPT !.action = "warn", !.say = Phrase("off_task_warning")]
    ELSE j

\* the personality step of judge()
ApplyPersonality(j, pm) ==
    IF j.action # "none" /\ pm THEN [j EXCEPT !.say = get_judgment_phrase(j)] ELSE j

\* judge() testing is_thinking before is_afk
JudgeThinkingFirst(activity, last_yell_time, cooldown_seconds, now, be, pm, r1, r2) ==
    IF activity.is_thinking
    THEN [judgment |-> Judgment("thinking", 80, Phrase("thinking"), "none"), calls |-> 0,
          tracked |-> FALSE, track_class |-> "none"]
    ELSE IF activity.is_afk
    THEN [judgment |-> Judgment("idle", 100, "", "none"), calls |-> 0,
          tracked |-> FALSE, track_class |-> "none"]
    ELSE LET llm == _judge_with_llm(activity, be, r1, r2) IN
         IF llm.res.ok
         THEN [judgment |-> ApplyPersonality(
                              ApplyCooldown(llm.res.j, last_yell_time,
                                            cooldown_seconds, now), pm),
               calls |-> llm.calls,
               tracked |-> TRUE, track_class |-> llm.res.j.classification]
         ELSE [judgment |-> _judge_fallback(activity), calls |-> llm.calls,
               tracked |-> FALSE, track_class |-> "none"]

\* judge(): the returned Judgment, the backend calls made, and whether (and with
\* which classification) _track_activity_pattern ran
judge(activity, last_yell_time, cooldown_seconds, now, be, pm, r1, r2) ==
    IF activity.is_afk
    THEN [judgment |-> Judgment("idle", 100, "", "none"), calls |-> 0,
          tracked |-> FALSE, track_class |-> "none"]
    ELSE IF activity.is_thinking
    THEN [judgment |-> Judgment("thinking", 80, Phrase("thinking"), "none"), calls |-> 0,
          tracked |-> FALSE, track_class |-> "none"]
    ELSE LET llm == _judge_with_llm(activity, be, r1, r2) IN
         IF llm.res.ok
         THEN [judgment |-> ApplyPersonality(
                              ApplyCooldown(llm.res.j, last_yell_time,
                                            cooldown_seconds, now), pm),
               calls |-> llm.calls,
               tracked |-> TRUE, track_class |-> llm.res.j.classification]
         ELSE [judgment |-> _judge_fallback(activity), calls |-> llm.calls,
               tracked |-> FALSE, track_class |-> "none"]

\* _track_activity_pattern
PatternCap == 20

_track_activity_pattern(pattern, app, classification) ==
    LET appended == Append(pattern, app \o ":" \o classification)
    IN  IF Len(appended) > PatternCap THEN Tail(appended) ELSE appended

TrackCount(count, classification) ==
    IF classification = "off_task" THEN count + 1 ELSE 0

-----------------------------------------------------------------------------
(* PomodoroTimer.  One caller makes the control calls; every _start_timer  *)
(* creates a tick thread.  self._lock is a threading.Lock: not reentrant.  *)
(* A `with self._lock:` block that cannot block inside is one step.        *)

work_duration_minutes == 1
short_break_minutes == 0
long_break_minutes == 1
pomodoros_until_long_break == 2
SecondsPerMinute == 60

MaxTimerThreads == 2
MaxPomodoros == 2

Caller == 0
NoThread == 0
Free == -1
TimerThreads == 1..MaxTimerThreads
PomoProcs == {Caller} \cup TimerThreads

OnStateChange(old, new) == [cb |-> "on_state_change", a |-> old, b |-> new]
OnComplete(period) == [cb |-> "on_complete", a |-> period, b |-> ""]
OnTick == [cb |-> "on_tick", a |-> "", b |-> ""]

Duration(state) ==
    IF state = "work" THEN work_duration_minutes * SecondsPerMinute
    ELSE IF state = "short_break" THEN short_break_minutes * SecondsPerMinute
    ELSE long_break_minutes * SecondsPerMinute

\* Thread.is_alive()
IsAlive(t) == t # NoThread /\ pomo_pc[t] # "dead"

\* a thread that waits for self._lock while its holder will not release it:
\* the holder is the joining caller itself, or a thread stuck on the lock
Blocked(t) ==
    /\ pomo_pc[t] \in {"lock", "complete_work", "complete_break"}
    /\ timer_lock # Free
    /\ \/ timer_lock = Caller
       \/ pomo_pc[timer_lock] \in {"complete_work", "complete_break"}

\* Thread.join(timeout=2.0) returns: the thread ended, or the timeout ran out
\* on a thread that is blocked
JoinReturns(t) == ~IsAlive(t) \/ Blocked(t)

PomodoroInit ==
    /\ current_state = "stopped"
    /\ time_remaining_seconds = 0
    /\ is_paused = FALSE
    /\ pomodoros_completed = 0
    /\ timer_lock = Free
    /\ timer_stop_event = FALSE
    /\ timer_thread = NoThread
    /\ pomo_pc = [p \in PomoProcs |-> IF p = Caller THEN "idle" ELSE "dead"]
    /\ pomo_op = "none"
    /\ fired = << >>
    /\ period_tickers = {}

\* start_work / start_short_break / start_long_break: the locked part
StartPeriod(new) ==
    /\ pomo_pc[Caller] = "idle"
    /\ timer_lock = Free
    /\ current_state' = new
    /\ time_remaining_seconds' = Duration(new)
    /\ is_paused' = FALSE
    /\ fired' = IF current_state # new THEN <<OnStateChange(current_state, new)>> ELSE << >>
    /\ pomo_pc' = [pomo_pc EXCEPT ![Caller] = "st_clear"]
    /\ pomo_op' = "start"
    /\ UNCHANGED <<pomodoros_completed, timer_lock, timer_stop_event, timer_thread>>
    /\ period_tickers' = {}
    /\ UNCHANGED notPomoVars

start_work == StartPeriod("work")
start_short_break == StartPeriod("short_break")
start_long_break == StartPeriod("long_break")

\* pause()
pause ==
    /\ pomo_pc[Caller] = "idle"
    /\ timer_lock = Free
    /\ is_paused' = IF current_state # "stopped" THEN TRUE ELSE is_paused
    /\ timer_stop_event' = IF current_state # "stopped" THEN TRUE ELSE timer_stop_event
    /\ fired' = << >>
    /\ UNCHANGED <<current_state, time_remaining_seconds, pomodoros_completed,
                   timer_lock, timer_thread, pomo_pc>>
    /\ pomo_op' = "pause"
    /\ UNCHANGED <<period_tickers, notPomoVars>>

\* resume(): _start_timer runs inside the locked block
resume ==
    /\ pomo_pc[Caller] = "idle"
    /\ timer_lock = Free
    /\ fired' = << >>
    /\ pomo_op' = "resume"
    /\ IF is_paused /\ current_state # "stopped"
       THEN /\ is_paused' = FALSE
            /\ timer_lock' = Caller
            /\ pomo_pc' = [pomo_pc EXCEPT ![Caller] = "st_clear"]
       ELSE UNCHANGED <<is_paused, timer_lock, pomo_pc>>
    /\ UNCHANGED <<current_state, time_remaining_seconds, pomodoros_completed,
                   timer_stop_event, timer_thread>>
    /\ UNCHANGED <<period_tickers, notPomoVars>>

\* stop(), called as such or by reset(): the locked part
StopLocked(op) ==
    /\ pomo_pc[Caller] = "idle"
    /\ timer_lock = Free
    /\ timer_stop_event' = TRUE
    /\ current_state' = "stopped"
    /\ time_remaining_seconds' = 0
    /\ is_paused' = FALSE
    /\ fired' = IF current_state # "stopped"
                THEN <<OnStateChange(current_state, "stopped")>> ELSE << >>
    /\ pomo_pc' = [pomo_pc EXCEPT ![Caller] = "stop_join"]
    /\ pomo_op' = op
    /\ UNCHANGED <<pomodoros_completed, timer_lock, timer_thread>>
    /\ period_tickers' = {}
    /\ UNCHANGED notPomoVars

stop == StopLocked("stop")

\* reset(): self.stop(), then pomodoros_completed = 0 under the lock
reset == StopLocked("reset")

ResetCount ==
    /\ pomo_pc[Caller] = "reset_count"
    /\ timer_lock = Free
    /\ pomodoros_completed' = 0
    /\ pomo_pc' = [pomo_pc EXCEPT ![Caller] = "idle"]
    /\ fired' = << >>
    /\ UNCHANGED <<current_state, time_remaining_seconds, is_paused, timer_lock,
                   timer_stop_event, timer_thread, pomo_op>>
    /\ UNCHANGED <<period_tickers, notPomoVars>>

\* stop(): `if thread.is_alive(): thread.join(timeout=2.0)`
StopJoin ==
    /\ pomo_pc[Caller] = "stop_join"
    /\ JoinReturns(timer_thread)
    /\ pomo_pc' = [pomo_pc EXCEPT ![Caller] = IF pomo_op = "reset" THEN "reset_count" ELSE "idle"]
    /\ fired' = << >>
    /\ UNCHANGED <<current_state, time_remaining_seconds, is_paused, pomodoros_completed,
                   timer_lock, timer_stop_event, timer_thread, pomo_op>>
    /\ UNCHANGED <<period_tickers, notPomoVars>>

\* skip(): reads current_state without the lock, then completes the period
skip ==
    /\ pomo_pc[Caller] = "idle"
    /\ pomo_pc' = [pomo_pc EXCEPT ![Caller] =
                      IF current_state = "work" THEN "complete_work"
                      ELSE IF current_state \in {"short_break", "long_break"}
                      THEN "complete_break"
                      ELSE "idle"]
    /\ pomo_op' = "skip"
    /\ fired' = << >>
    /\ UNCHANGED <<current_state, time_remaining_seconds, is_paused, pomodoros_completed,
                   timer_lock, timer_stop_event, timer_thread>>
    /\ UNCHANGED <<period_tickers, notPomoVars>>

\* the state a completed work period leads to
NextBreak(completed) ==
    IF completed % pomodoros_until_long_break = 0 THEN "long_break" ELSE "short_break"

\* _complete_work that never chooses the long break
CompleteWorkShortOnly(p) ==
    /\ pomo_pc[p] = "complete_work"
    /\ timer_lock = Free
    /\ pomodoros_completed < MaxPomodoros
    /\ pomodoros_completed' = pomodoros_completed + 1
    /\ current_state' = "short_break"
    /\ time_remaining_seconds' = Duration("short_break")
    /\ fired' = <<OnComplete("work"), OnStateChange("work", "short_break")>>
    /\ pomo_pc' = [pomo_pc EXCEPT ![p] = "st_clear"]
    /\ UNCHANGED <<is_paused, timer_lock, timer_stop_event, timer_thread, pomo_op>>
    /\ period_tickers' = {}
    /\ UNCHANGED notPomoVars

\* _complete_work, run by p: takes self._lock, then calls _start_timer
_complete_work(p) ==
    /\ pomo_pc[p] = "complete_work"
    /\ timer_lock = Free
    /\ pomodoros_completed < MaxPomodoros
    /\ pomodoros_completed' = pomodoros_completed + 1
    /\ current_state' = NextBreak(pomodoros_completed + 1)
    /\ time_remaining_seconds' = Duration(NextBreak(pomodoros_completed + 1))
    /\ fired' = <<OnComplete("work"),
                  OnStateChange("work", NextBreak(pomodoros_completed + 1))>>
    /\ pomo_pc' = [pomo_pc EXCEPT ![p] = "st_clear"]
    /\ UNCHANGED <<is_paused, timer_lock, timer_stop_event, timer_thread, pomo_op>>
    /\ period_tickers' = {}
    /\ UNCHANGED notPomoVars

\* the end of a call: the caller is idle again (resume leaves its locked
\* block); a tick thread returns out of _timer_loop, leaving its locked block
Return(p) ==
    /\ pomo_pc' = [pomo_pc EXCEPT ![p] = IF p = Caller THEN "idle" ELSE "dead"]
    /\ timer_lock' = IF timer_lock = p THEN Free ELSE timer_lock
    /\ UNCHANGED pomo_op

\* _complete_break, run by p: takes self._lock
_complete_break(p) ==
    /\ pomo_pc[p] = "complete_break"
    /\ timer_lock = Free
    /\ fired' = <<OnComplete(current_state), OnStateChange(current_state, "stopped")>>
    /\ current_state' = "stopped"
    /\ time_remaining_seconds' = 0
    /\ Return(p)
    /\ UNCHANGED <<is_paused, pomodoros_completed, timer_stop_event, timer_thread>>
    /\ period_tickers' = {}
    /\ UNCHANGED notPomoVars

\* _start_timer, run by p: self._stop_event.clear()
StartTimerClear(p) ==
    /\ pomo_pc[p] = "st_clear"
    /\ timer_stop_event' = FALSE
    /\ pomo_pc' = [pomo_pc EXCEPT ![p] = "st_alive"]
    /\ fired' = << >>
    /\ UNCHANGED <<current_state, time_remaining_seconds, is_paused, pomodoros_completed,
                   timer_lock, timer_thread, pomo_op>>
    /\ UNCHANGED <<period_tickers, notPomoVars>>

\* _start_timer: `if thread.is_alive(): self._stop_event.set()`
StartTimerAlive(p) ==
    /\ pomo_pc[p] = "st_alive"
    /\ timer_stop_event' = IF IsAlive(timer_thread) THEN TRUE ELSE timer_stop_event
    /\ pomo_pc' = [pomo_pc EXCEPT ![p] =
                      IF IsAlive(timer_thread) THEN "st_join" ELSE "st_spawn"]
    /\ fired' = << >>
    /\ UNCHANGED <<current_state, time_remaining_seconds, is_paused, pomodoros_completed,
                   timer_lock, timer_thread, pomo_op>>
    /\ UNCHANGED <<period_tickers, notPomoVars>>

\* _start_timer: `thread.join(timeout=2.0); self._stop_event.clear()`
StartTimerJoin(p) ==
    /\ pomo_pc[p] = "st_join"
    /\ JoinReturns(timer_thread)
    /\ timer_stop_event' = FALSE
    /\ pomo_pc' = [pomo_pc EXCEPT ![p] = "st_spawn"]
    /\ fired' = << >>
    /\ UNCHANGED <<current_state, time_remaining_seconds, is_paused, pomodoros_completed,
                   timer_lock, timer_thread, pomo_op>>
    /\ UNCHANGED <<period_tickers, notPomoVars>>

\* _start_timer: a new thread runs _timer_loop; the call returns
StartTimerSpawn(p) ==
    /\ pomo_pc[p] = "st_spawn"
    /\ \E n \in TimerThreads :
         /\ pomo_pc[n] = "dead"
         /\ n # p
         /\ timer_thread' = n
         /\ pomo_pc' = [pomo_pc EXCEPT ![n] = "check",
                                       ![p] = IF p = Caller THEN "idle" ELSE "dead"]
    /\ timer_lock' = IF timer_lock = p THEN Free ELSE timer_lock
    /\ fired' = << >>
    /\ UNCHANGED pomo_op
    /\ UNCHANGED <<current_state, time_remaining_seconds, is_paused, pomodoros_completed,
                   timer_stop_event>>
    /\ UNCHANGED <<period_tickers, notPomoVars>>

\* _timer_loop: `while not self._stop_event.is_set()` and the 1 s wait on it
TimerCheck(t) ==
    /\ pomo_pc[t] = "check"
    /\ pomo_pc' = [pomo_pc EXCEPT ![t] = IF timer_stop_event THEN "dead" ELSE "lock"]
    /\ fired' = << >>
    /\ UNCHANGED <<current_state, time_remaining_seconds, is_paused, pomodoros_completed,
                   timer_lock, timer_stop_event, timer_thread, pomo_op>>
    /\ UNCHANGED <<period_tickers, notPomoVars>>

\* _timer_loop without the `time_remaining_seconds <= 0` test
TimerTickUnguarded(t) ==
    /\ pomo_pc[t] = "lock"
    /\ timer_lock = Free
    /\ IF FALSE
       THEN /\ timer_lock' = t
            /\ pomo_pc' = [pomo_pc EXCEPT ![t] = "handle_completion"]
            /\ fired' = << >>
            /\ UNCHANGED time_remaining_seconds
       ELSE /\ time_remaining_seconds' = time_remaining_seconds - 1
            /\ pomo_pc' = [pomo_pc EXCEPT ![t] = "check"]
            /\ fired' = <<OnTick>>
            /\ UNCHANGED timer_lock
    /\ UNCHANGED <<current_state, is_paused, pomodoros_completed, timer_stop_event,
                   timer_thread, pomo_op>>
    /\ period_tickers' = IF FALSE THEN period_tickers
                       ELSE period_tickers \cup {t}
    /\ UNCHANGED notPomoVars

\* _timer_loop: the locked block.  At 0 it calls _handle_completion and keeps
\* the lock; otherwise it counts one second down and calls on_tick
TimerTick(t) ==
    /\ pomo_pc[t] = "lock"
    /\ timer_lock = Free
    /\ IF time_remaining_seconds <= 0
       THEN /\ timer_lock' = t
            /\ pomo_pc' = [pomo_pc EXCEPT ![t] = "handle_completion"]
            /\ fired' = << >>
            /\ UNCHANGED time_remaining_seconds
       ELSE /\ time_remaining_seconds' = time_remaining_seconds - 1
            /\ pomo_pc' = [pomo_pc EXCEPT ![t] = "check"]
            /\ fired' = <<OnTick>>
            /\ UNCHANGED timer_lock
    /\ UNCHANGED <<current_state, is_paused, pomodoros_completed, timer_stop_event,
                   timer_thread, pomo_op>>
    /\ period_tickers' = IF time_remaining_seconds <= 0 THEN period_tickers
                       ELSE period_tickers \cup {t}
    /\ UNCHANGED notPomoVars

\* _handle_completion, called by the tick thread inside its locked block
_handle_completion(t) ==
    /\ pomo_pc[t] = "handle_completion"
    /\ fired' = << >>
    /\ IF current_state = "work"
       THEN /\ pomo_pc' = [pomo_pc EXCEPT ![t] = "complete_work"]
            /\ UNCHANGED <<timer_lock, pomo_op>>
       ELSE IF current_state \in {"short_break", "long_break"}
       THEN /\ pomo_pc' = [pomo_pc EXCEPT ![t] = "complete_break"]
            /\ UNCHANGED <<timer_lock, pomo_op>>
       ELSE Return(t)
    /\ UNCHANGED <<current_state, time_remaining_seconds, is_paused, pomodoros_completed,
                   timer_stop_event, timer_thread>>
    /\ UNCHANGED <<period_tickers, notPomoVars>>

PomodoroNext ==
    \/ start_work
    \/ start_short_break
    \/ start_long_break
    \/ pause
    \/ resume
    \/ stop
    \/ reset
    \/ StopJoin
    \/ ResetCount
    \/ skip
    \/ \E p \in PomoProcs : _complete_work(p)
    \/ \E p \in PomoProcs : _complete_break(p)
    \/ \E p \in PomoProcs : StartTimerClear(p)
    \/ \E p \in PomoProcs : StartTimerAlive(p)
    \/ \E p \in PomoProcs : StartTimerJoin(p)
    \/ \E p \in PomoProcs : StartTimerSpawn(p)
    \/ \E t \in TimerThreads : TimerCheck(t)
    \/ \E t \in TimerThreads : TimerTick(t)
    \/ \E t \in TimerThreads : _handle_completion(t)

-----------------------------------------------------------------------------
(* ReminderWorker (reminders.py).  run() is one thread; time.time() is the *)
(* clock rem_clock, which advances on its own; cancellation sets the       *)
(* shared stop event.                                                      *)

\* latest clock reading explored
MaxClock == 5

\* config["reminder_intervals_sec"]: the offsets handed to the worker
OffsetLists == {<< >>, <<2>>, <<1, 3>>, <<3, 1>>, <<2, 2>>}

\* the timeout of stop_event.wait() when the next reminder is a second or more away
WaitCap == 1

\* list.pop(i), with indices counted from 1
Pop(s, i) == SubSeq(s, 1, i - 1) \o SubSeq(s, i + 1, Len(s))

\* the indices appended to `fired` by one pass over reminder_times, ascending
FiredIndices(times, t) ==
    LET F[i \in 0..Len(times)] ==
            IF i = 0 THEN << >>
            ELSE IF t >= times[i] THEN Append(F[i - 1], i) ELSE F[i - 1]
    IN F[Len(times)]

\* for i in fired: reminder_times.pop(i), in ascending order
RECURSIVE RemoveFiredForward(_, _)
RemoveFiredForward(times, idx) ==
    IF idx = << >> \/ Head(idx) > Len(times) THEN times
    ELSE RemoveFiredForward(Pop(times, Head(idx)), Tail(idx))

\* for i in reversed(fired): reminder_times.pop(i)
RECURSIVE RemoveFired(_, _)
RemoveFired(times, idx) ==
    IF idx = << >> THEN times
    ELSE RemoveFired(Pop(times, idx[Len(idx)]), SubSeq(idx, 1, Len(idx) - 1))

\* the queued event; `due` records the reminder time that triggered it
ReminderEvent(t, d) == [type |-> "reminder_triggered", timestamp |-> t, due |-> d]

\* ReminderWorker(intervals, event_queue, stop_event), not yet run
ReminderInit(intervals) ==
    /\ rem_intervals = intervals
    /\ reminder_times = << >>
    /\ rem_pc = "created"
    /\ rem_clock = 0
    /\ rem_start = 0
    /\ rem_current_time = 0
    /\ rem_wake = 0
    /\ rem_stop = FALSE
    /\ rem_events = << >>

\* run(): start_time, the reminder times and their sort
ReminderStart ==
    /\ rem_pc = "created"
    /\ rem_start' = rem_clock
    /\ reminder_times' = SortSeq([i \in 1..Len(rem_intervals) |-> rem_clock + rem_intervals[i]],
                                 LAMBDA a, b : a < b)
    /\ rem_pc' = "test"
    /\ UNCHANGED <<rem_intervals, rem_clock, rem_current_time, rem_wake, rem_stop,
                   rem_events, notRemVars>>

\* while not self.stop_event.is_set()
ReminderTest ==
    /\ rem_pc = "test"
    /\ rem_pc' = IF rem_stop THEN "done" ELSE "check"
    /\ UNCHANGED <<rem_intervals, reminder_times, rem_clock, rem_start, rem_current_time,
                   rem_wake, rem_stop, rem_events, notRemVars>>

\* one pass of the loop body: read the clock, queue an event for every
\* reminder time reached, drop them from the list, then leave or wait
ReminderCheck ==
    /\ rem_pc = "check"
    /\ LET idx == FiredIndices(reminder_times, rem_clock)
           rest == RemoveFired(reminder_times, idx)
       IN /\ rem_current_time' = rem_clock
          /\ rem_events' = rem_events \o
                 [k \in 1..Len(idx) |-> ReminderEvent(rem_clock, reminder_times[idx[k]])]
          /\ reminder_times' = rest
          /\ rem_pc' = IF rest = << >> THEN "done" ELSE "wait"
          /\ rem_wake' = rem_clock + WaitCap
    /\ UNCHANGED <<rem_intervals, rem_clock, rem_start, rem_stop, notRemVars>>

\* stop_event.wait(timeout) returns: the event was set or the timeout ran out
ReminderWake ==
    /\ rem_pc = "wait"
    /\ rem_stop \/ rem_clock >= rem_wake
    /\ rem_pc' = "test"
    /\ UNCHANGED <<rem_intervals, reminder_times, rem_clock, rem_start, rem_current_time,
                   rem_wake, rem_stop, rem_events, notRemVars>>

\* a second passes
ReminderClock ==
    /\ rem_clock < MaxClock
    /\ rem_clock' = rem_clock + 1
    /\ UNCHANGED <<rem_intervals, reminder_times, rem_pc, rem_start, rem_current_time,
                   rem_wake, rem_stop, rem_events, notRemVars>>

\* the owner of the stop event sets it
ReminderCancel ==
    /\ ~rem_stop
    /\ rem_stop' = TRUE
    /\ UNCHANGED <<rem_intervals, reminder_times, rem_pc, rem_clock, rem_start,
                   rem_current_time, rem_wake, rem_events, notRemVars>>

ReminderNext ==
    \/ ReminderStart
    \/ ReminderTest
    \/ ReminderCheck
    \/ ReminderWake
    \/ ReminderClock
    \/ ReminderCancel

-----------------------------------------------------------------------------
(* AppController sessions.  The controller thread (the UI thread) makes    *)
(* start_session / end_session and drains the event queue; every session   *)
(* starts its own worker threads, which share self.stop_event.  A thread   *)
(* of session g is workers_pc[kind][g].                                    *)

MaxSessions == 2
MaxQueue == 1

Controller == "controller"

\* classifications a judgment can carry; the handlers treat unknown as idle
JudgedClassifications == {"on_task", "thinking", "off_task", "idle"}
SessionWorkers == {"activity_poller", "judge_worker", "reminder_worker"}
WorkerKinds == SessionWorkers \cup {"motivation_monitor"}
Gens == 1..MaxSessions

\* an event of the queue; after_end tells that the worker that put it belongs
\* to a session that had ended (or been superseded) when it was put
Event(type, classification, g) ==
    [type |-> type, classification |-> classification,
     after_end |-> ~(session_active /\ g = session_no)]

\* event_queue.put(e)
Put(q, e) == Append(q, e)

\* self.drill_worker and self.drill_worker.is_alive()
IsDrillAlive == drill_pc # "dead"

\* where _stop_drill_worker() returns to
AfterStopDrill(op) ==
    IF op = "end" THEN "end_stop"
    ELSE IF op = "activity" THEN "ij_cancel"
    ELSE "done"

SessionInit ==
    /\ session_active = FALSE
    /\ stop_event = FALSE
    /\ session_no = 0
    /\ workers_pc = [k \in WorkerKinds |-> [g \in Gens |-> "dead"]]
    /\ mm_stop_event = FALSE
    /\ event_queue = << >>
    /\ current_activity = FALSE
    /\ last_judgment = "none"
    /\ last_judgment_obj = "none"
    /\ drill_pc = "dead"
    /\ drill_stop_event = FALSE
    /\ ctl = "idle"
    /\ ctl_op = "none"
    /\ ctl_class = "none"
    /\ restart = FALSE
    /\ cancel_calls = 0
    /\ drill_alive_at_start = FALSE
    /\ state_writers = {}

\* start_session(): an active session is ended first
start_session ==
    /\ ctl = "idle"
    /\ session_no < MaxSessions
    /\ IF session_active
       THEN /\ stop_event' = TRUE
            /\ ctl' = "sd_check"
            /\ restart' = TRUE
       ELSE /\ ctl' = "start"
            /\ UNCHANGED <<stop_event, restart>>
    /\ ctl_op' = IF session_active THEN "end" ELSE "start"
    /\ cancel_calls' = 0
    /\ UNCHANGED <<session_active, session_no, workers_pc, mm_stop_event, event_queue,
                   current_activity, last_judgment, last_judgment_obj, drill_pc,
                   drill_stop_event, ctl_class, drill_alive_at_start, state_writers,
                   notSessVars>>

\* start_session(): the new session's state, _start_workers() and
\* motivation_monitor.start()
StartSessionBody ==
    /\ ctl = "start"
    /\ session_active' = TRUE
    /\ session_no' = session_no + 1
    /\ state_writers' = state_writers \cup {Controller}
    /\ current_activity' = FALSE
    /\ last_judgment' = "none"
    /\ event_queue' = << >>
    /\ workers_pc' = [k \in WorkerKinds |->
                        [workers_pc[k] EXCEPT ![session_no + 1] =
                            IF k = "motivation_monitor" THEN "sleep" ELSE "test"]]
    /\ mm_stop_event' = FALSE
    /\ ctl' = "idle"
    /\ ctl_op' = "none"
    /\ UNCHANGED <<stop_event, last_judgment_obj, drill_pc, drill_stop_event, ctl_class,
                   restart, cancel_calls, drill_alive_at_start, notSessVars>>

\* end_session(): returns at once without a session, else sets the
\* session's stop_event and goes on to _stop_drill_worker()
end_session ==
    /\ ctl = "idle"
    /\ IF session_active
       THEN /\ stop_event' = TRUE
            /\ ctl' = "sd_check"
            /\ ctl_op' = "end"
            /\ cancel_calls' = 0
       ELSE UNCHANGED <<stop_event, ctl, ctl_op, cancel_calls>>
    /\ UNCHANGED <<session_active, session_no, workers_pc, mm_stop_event, event_queue,
                   current_activity, last_judgment, last_judgment_obj, drill_pc,
                   drill_stop_event, ctl_class, restart, drill_alive_at_start,
                   state_writers, notSessVars>>

\* _stop_drill_worker(): `if self.drill_worker and self.drill_worker.is_alive()`,
\* then drill_stop_event.set() and tts_service.cancel_all()
StopDrillCheck ==
    /\ ctl = "sd_check"
    /\ IF IsDrillAlive
       THEN /\ drill_stop_event' = TRUE
            /\ cancel_calls' = cancel_calls + 1
            /\ ctl' = "sd_join"
       ELSE /\ ctl' = AfterStopDrill(ctl_op)
            /\ UNCHANGED <<drill_stop_event, cancel_calls>>
    /\ UNCHANGED <<session_active, stop_event, session_no, workers_pc, mm_stop_event,
                   event_queue, current_activity, last_judgment, last_judgment_obj,
                   drill_pc, ctl_op, ctl_class, restart, drill_alive_at_start,
                   state_writers, notSessVars>>

\* _stop_drill_worker(): drill_worker.join(timeout=2.0) returns when the worker
\* has ended, or on the timeout while it is inside get_phrase()
StopDrillJoin ==
    /\ ctl = "sd_join"
    /\ drill_pc \in {"dead", "phrase"}
    /\ ctl' = AfterStopDrill(ctl_op)
    /\ UNCHANGED <<session_active, stop_event, session_no, workers_pc, mm_stop_event,
                   event_queue, current_activity, last_judgment, last_judgment_obj,
                   drill_pc, drill_stop_event, ctl_op, ctl_class, restart, cancel_calls,
                   drill_alive_at_start, state_writers, notSessVars>>

\* end_session(): tts_service.cancel_all(), then motivation_monitor.stop()
\* sets the monitor's own stop event (pomodoro.stop() in between is the
\* timer's own step, stop)
EndStop ==
    /\ ctl = "end_stop"
    /\ cancel_calls' = cancel_calls + 1
    /\ mm_stop_event' = TRUE
    /\ ctl' = "end_mm_join"
    /\ UNCHANGED <<session_active, stop_event, session_no, workers_pc, event_queue,
                   current_activity, last_judgment, last_judgment_obj, drill_pc,
                   drill_stop_event, ctl_op, ctl_class, restart, drill_alive_at_start,
                   state_writers, notSessVars>>

\* motivation_monitor.stop(): join(timeout=2.0) returns when the loop has
\* ended, or on the timeout while it is in its first time.sleep(60)
EndMonitorJoin ==
    /\ ctl = "end_mm_join"
    /\ workers_pc["motivation_monitor"][session_no] \in {"dead", "sleep"}
    /\ ctl' = "end_join"
    /\ UNCHANGED <<session_active, stop_event, session_no, workers_pc, mm_stop_event,
                   event_queue, current_activity, last_judgment, last_judgment_obj,
                   drill_pc, drill_stop_event, ctl_op, ctl_class, restart, cancel_calls,
                   drill_alive_at_start, state_writers, notSessVars>>

\* end_session(): worker.join(timeout=5.0) for each of self.workers; only the
\* judging worker can outlast it, inside judge()
EndJoin ==
    /\ ctl = "end_join"
    /\ \A k \in SessionWorkers :
         \/ workers_pc[k][session_no] = "dead"
         \/ k = "judge_worker" /\ workers_pc[k][session_no] = "judging"
    /\ ctl' = "end_finish"
    /\ UNCHANGED <<session_active, stop_event, session_no, workers_pc, mm_stop_event,
                   event_queue, current_activity, last_judgment, last_judgment_obj,
                   drill_pc, drill_stop_event, ctl_op, ctl_class, restart, cancel_calls,
                   drill_alive_at_start, state_writers, notSessVars>>

\* end_session(): stats.end_time, session_active = False, stop_event.clear()
EndFinish ==
    /\ ctl = "end_finish"
    /\ state_writers' = state_writers \cup {Controller}
    /\ session_active' = FALSE
    /\ stop_event' = FALSE
    /\ ctl' = IF restart THEN "start" ELSE "idle"
    /\ ctl_op' = IF restart THEN "start" ELSE "none"
    /\ restart' = FALSE
    /\ cancel_calls' = 0
    /\ UNCHANGED <<session_no, workers_pc, mm_stop_event, event_queue, current_activity,
                   last_judgment, last_judgment_obj, drill_pc, drill_stop_event,
                   ctl_class, drill_alive_at_start, notSessVars>>

\* _handle_activity_update, and _trigger_immediate_judgment when the drill
\* worker is alive: judge() runs on the controller thread
_handle_activity_update ==
    /\ ctl = "idle"
    /\ event_queue # << >>
    /\ Head(event_queue).type = "activity_update"
    /\ event_queue' = Tail(event_queue)
    /\ current_activity' = TRUE
    /\ state_writers' = state_writers \cup {Controller}
    /\ cancel_calls' = 0
    /\ drill_alive_at_start' = (IsDrillAlive /\ session_active)
    /\ IF IsDrillAlive /\ session_active
       THEN \E c \in JudgedClassifications :
              /\ last_judgment' = c
              /\ last_judgment_obj' = c
              /\ ctl_class' = c
              /\ ctl_op' = "activity"
              /\ ctl' = IF c \in {"on_task", "thinking"} THEN "sd_check" ELSE "done"
       ELSE UNCHANGED <<last_judgment, last_judgment_obj, ctl_class, ctl_op, ctl>>
    /\ UNCHANGED <<session_active, stop_event, session_no, workers_pc, mm_stop_event,
                   drill_pc, drill_stop_event, restart, notSessVars>>

\* _handle_judgment_update: last_judgment and state.last_judgment_obj are set
\* before the drill worker is started or stopped
_handle_judgment_update ==
    /\ ctl = "idle"
    /\ event_queue # << >>
    /\ Head(event_queue).type = "judgment_update"
    /\ event_queue' = Tail(event_queue)
    /\ last_judgment' = Head(event_queue).classification
    /\ last_judgment_obj' = Head(event_queue).classification
    /\ state_writers' = state_writers \cup {Controller}
    /\ ctl_class' = Head(event_queue).classification
    /\ ctl_op' = "judgment"
    /\ ctl' = "hj_branch"
    /\ cancel_calls' = 0
    /\ drill_alive_at_start' = IsDrillAlive
    /\ UNCHANGED <<session_active, stop_event, session_no, workers_pc, mm_stop_event,
                   current_activity, drill_pc, drill_stop_event, restart, notSessVars>>

\* _handle_judgment_update: off_task counts a distraction and calls
\* _start_drill_worker() (no-op when the worker is alive); any other
\* classification calls _stop_drill_worker()
HandleJudgmentBranch ==
    /\ ctl = "hj_branch"
    /\ IF ctl_class = "off_task"
       THEN /\ drill_pc' = IF IsDrillAlive THEN drill_pc ELSE "sleep"
            /\ drill_stop_event' = IF IsDrillAlive THEN drill_stop_event ELSE FALSE
            /\ ctl' = "done"
       ELSE /\ ctl' = "sd_check"
            /\ UNCHANGED <<drill_pc, drill_stop_event>>
    /\ UNCHANGED <<session_active, stop_event, session_no, workers_pc, mm_stop_event,
                   event_queue, current_activity, last_judgment, last_judgment_obj,
                   ctl_op, ctl_class, restart, cancel_calls, drill_alive_at_start,
                   state_writers, notSessVars>>

\* _trigger_immediate_judgment: tts_service.cancel_all() after _stop_drill_worker()
ImmediateCancel ==
    /\ ctl = "ij_cancel"
    /\ cancel_calls' = cancel_calls + 1
    /\ ctl' = "done"
    /\ UNCHANGED <<session_active, stop_event, session_no, workers_pc, mm_stop_event,
                   event_queue, current_activity, last_judgment, last_judgment_obj,
                   drill_pc, drill_stop_event, ctl_op, ctl_class, restart,
                   drill_alive_at_start, state_writers, notSessVars>>

\* the handler returns to process_events_tick
HandlerReturn ==
    /\ ctl = "done"
    /\ ctl' = "idle"
    /\ ctl_op' = "none"
    /\ ctl_class' = "none"
    /\ cancel_calls' = 0
    /\ drill_alive_at_start' = FALSE
    /\ UNCHANGED <<session_active, stop_event, session_no, workers_pc, mm_stop_event,
                   event_queue, current_activity, last_judgment, last_judgment_obj,
                   drill_pc, drill_stop_event, restart, state_writers, notSessVars>>

\* _handle_reminder: speaks the reminder
_handle_reminder ==
    /\ ctl = "idle"
    /\ event_queue # << >>
    /\ Head(event_queue).type = "reminder_triggered"
    /\ event_queue' = Tail(event_queue)
    /\ UNCHANGED <<session_active, stop_event, session_no, workers_pc, mm_stop_event,
                   current_activity, last_judgment, last_judgment_obj, drill_pc,
                   drill_stop_event, ctl, ctl_op, ctl_class, restart, cancel_calls,
                   drill_alive_at_start, state_writers, notSessVars>>

\* drill_loop: time.sleep(drill_interval) / drill_stop_event.wait(drill_interval) ends
DrillSleep ==
    /\ drill_pc = "sleep"
    /\ drill_pc' = "test"
    /\ UNCHANGED <<session_active, stop_event, session_no, workers_pc, mm_stop_event,
                   event_queue, current_activity, last_judgment, last_judgment_obj,
                   drill_stop_event, ctl, ctl_op, ctl_class, restart, cancel_calls,
                   drill_alive_at_start, state_writers, notSessVars>>

\* drill_loop: the while condition, then the look at state.last_judgment_obj
DrillTest ==
    /\ drill_pc = "test"
    /\ drill_pc' = IF drill_stop_event \/ ~session_active THEN "dead"
                   ELSE IF last_judgment_obj = "off_task" THEN "phrase"
                   ELSE "exit"
    /\ UNCHANGED <<session_active, stop_event, session_no, workers_pc, mm_stop_event,
                   event_queue, current_activity, last_judgment, last_judgment_obj,
                   drill_stop_event, ctl, ctl_op, ctl_class, restart, cancel_calls,
                   drill_alive_at_start, state_writers, notSessVars>>

\* drill_loop: get_phrase("off_task_drill") has returned; tts_service.speak(phrase)
DrillSpeak ==
    /\ drill_pc = "phrase"
    /\ drill_pc' = "sleep"
    /\ UNCHANGED <<session_active, stop_event, session_no, workers_pc, mm_stop_event,
                   event_queue, current_activity, last_judgment, last_judgment_obj,
                   drill_stop_event, ctl, ctl_op, ctl_class, restart, cancel_calls,
                   drill_alive_at_start, state_writers, notSessVars>>

\* drill_loop: `break`, the thread ends
DrillExit ==
    /\ drill_pc = "exit"
    /\ drill_pc' = "dead"
    /\ UNCHANGED <<session_active, stop_event, session_no, workers_pc, mm_stop_event,
                   event_queue, current_activity, last_judgment, last_judgment_obj,
                   drill_stop_event, ctl, ctl_op, ctl_class, restart, cancel_calls,
                   drill_alive_at_start, state_writers, notSessVars>>

\* activity_poller_loop: `while not self.stop_event.is_set()`
PollerTest(g) ==
    /\ workers_pc["activity_poller"][g] = "test"
    /\ workers_pc' = [workers_pc EXCEPT !["activity_poller"][g] =
                         IF stop_event THEN "dead" ELSE "poll"]
    /\ UNCHANGED <<session_active, stop_event, session_no, mm_stop_event, event_queue,
                   current_activity, last_judgment, last_judgment_obj, drill_pc,
                   drill_stop_event, ctl, ctl_op, ctl_class, restart, cancel_calls,
                   drill_alive_at_start, state_writers, notSessVars>>

\* activity_poller_loop: get_current_activity(), an activity_update when the
\* window changed, then stop_event.wait(poll_interval)
PollerPoll(g) ==
    /\ workers_pc["activity_poller"][g] = "poll"
    /\ \E changed \in BOOLEAN :
         event_queue' = IF changed THEN Put(event_queue, Event("activity_update", "none", g))
                        ELSE event_queue
    /\ Len(event_queue') <= MaxQueue
    /\ workers_pc' = [workers_pc EXCEPT !["activity_poller"][g] = "test"]
    /\ UNCHANGED <<session_active, stop_event, session_no, mm_stop_event,
                   current_activity, last_judgment, last_judgment_obj, drill_pc,
                   drill_stop_event, ctl, ctl_op, ctl_class, restart, cancel_calls,
                   drill_alive_at_start, state_writers, notSessVars>>

\* judge_worker_loop: `while not self.stop_event.is_set()`, then judge() when
\* there is a current activity
JudgeTest(g) ==
    /\ workers_pc["judge_worker"][g] = "test"
    /\ workers_pc' = [workers_pc EXCEPT !["judge_worker"][g] =
                         IF stop_event THEN "dead"
                         ELSE IF current_activity THEN "judging" ELSE "test"]
    /\ UNCHANGED <<session_active, stop_event, session_no, mm_stop_event, event_queue,
                   current_activity, last_judgment, last_judgment_obj, drill_pc,
                   drill_stop_event, ctl, ctl_op, ctl_class, restart, cancel_calls,
                   drill_alive_at_start, state_writers, notSessVars>>

\* judge_worker_loop: judge() has returned; the judgment_update is put on the
\* queue and the worker adds judge_interval to the session's stats
JudgeJudging(g) ==
    /\ workers_pc["judge_worker"][g] = "judging"
    /\ Len(event_queue) < MaxQueue
    /\ \E c \in JudgedClassifications :
         event_queue' = Put(event_queue, Event("judgment_update", c, g))
    /\ state_writers' = state_writers \cup {"judge_worker"}
    /\ workers_pc' = [workers_pc EXCEPT !["judge_worker"][g] = "test"]
    /\ UNCHANGED <<session_active, stop_event, session_no, mm_stop_event,
                   current_activity, last_judgment, last_judgment_obj, drill_pc,
                   drill_stop_event, ctl, ctl_op, ctl_class, restart, cancel_calls,
                   drill_alive_at_start, notSessVars>>

\* ReminderWorker.run: a due reminder is put on the queue; the loop ends on
\* the stop event or after the last reminder
ReminderRun(g) ==
    /\ workers_pc["reminder_worker"][g] = "test"
    /\ IF stop_event
       THEN /\ workers_pc' = [workers_pc EXCEPT !["reminder_worker"][g] = "dead"]
            /\ UNCHANGED event_queue
       ELSE /\ Len(event_queue) < MaxQueue
            /\ event_queue' = Put(event_queue, Event("reminder_triggered", "none", g))
            /\ \E last \in BOOLEAN :
                 workers_pc' = [workers_pc EXCEPT !["reminder_worker"][g] =
                                   IF last THEN "dead" ELSE "test"]
    /\ UNCHANGED <<session_active, stop_event, session_no, mm_stop_event,
                   current_activity, last_judgment, last_judgment_obj, drill_pc,
                   drill_stop_event, ctl, ctl_op, ctl_class, restart, cancel_calls,
                   drill_alive_at_start, state_writers, notSessVars>>

\* _monitor_loop: the first time.sleep(60) ends
MonitorSleep(g) ==
    /\ workers_pc["motivation_monitor"][g] = "sleep"
    /\ workers_pc' = [workers_pc EXCEPT !["motivation_monitor"][g] = "test"]
    /\ UNCHANGED <<session_active, stop_event, session_no, mm_stop_event, event_queue,
                   current_activity, last_judgment, last_judgment_obj, drill_pc,
                   drill_stop_event, ctl, ctl_op, ctl_class, restart, cancel_calls,
                   drill_alive_at_start, state_writers, notSessVars>>

\* _monitor_loop: `while not self._stop_event.is_set()`: a check and a wait,
\* or the end of the loop
MonitorTest(g) ==
    /\ workers_pc["motivation_monitor"][g] = "test"
    /\ workers_pc' = [workers_pc EXCEPT !["motivation_monitor"][g] =
                         IF mm_stop_event THEN "dead" ELSE "test"]
    /\ UNCHANGED <<session_active, stop_event, session_no, mm_stop_event, event_queue,
                   current_activity, last_judgment, last_judgment_obj, drill_pc,
                   drill_stop_event, ctl, ctl_op, ctl_class, restart, cancel_calls,
                   drill_alive_at_start, state_writers, notSessVars>>

SessionNext ==
    \/ start_session
    \/ StartSessionBody
    \/ end_session
    \/ StopDrillCheck
    \/ StopDrillJoin
    \/ EndStop
    \/ EndMonitorJoin
    \/ EndJoin
    \/ EndFinish
    \/ _handle_activity_update
    \/ _handle_judgment_update
    \/ HandleJudgmentBranch
    \/ ImmediateCancel
    \/ HandlerReturn
    \/ _handle_reminder
    \/ DrillSleep
    \/ DrillTest
    \/ DrillSpeak
    \/ DrillExit
    \/ \E g \in Gens : PollerTest(g)
    \/ \E g \in Gens : PollerPoll(g)
    \/ \E g \in Gens : JudgeTest(g)
    \/ \E g \in Gens : JudgeJudging(g)
    \/ \E g \in Gens : ReminderRun(g)
    \/ \E g \in Gens : MonitorSleep(g)
    \/ \E g \in Gens : MonitorTest(g)

-----------------------------------------------------------------------------
(* Session accounting: one AppController with the data its session state   *)
(* carries (goal, SessionStats, activities, judgments).  The controller    *)
(* thread makes the session calls and handles one queued event per step;   *)
(* the activity poller, the judging worker, the drill worker, the timer    *)
(* and the user's window changes interleave with it.  The workers here     *)
(* leave their loops within end_session's join(timeout=5.0); a worker that *)
(* outlasts the join is the subject of SpecSession.                        *)

MaxAcctSessions == 2
MaxCycles == 3
MaxSwitches == 1
MaxAcctQueue == 2
MaxCalls == 1

\* config["judge_interval_sec"] and config["cooldown_seconds"]
judge_interval_sec == 10
config_cooldown_seconds == 30

\* the goal handed to the n-th start_session call, and the one handed to
\* change_goal; "None" is state.goal = None
SessionGoals == <<"write code", "read docs">>
NewGoals == {"fix the build"}

\* what native_monitor.get_current_activity() can return
Window(app, title, afk) ==
    [app |-> app, title |-> title, is_afk |-> afk, is_thinking |-> FALSE,
     idle_duration_seconds |-> 0]

CursorMain == Window("Cursor", "main.py", FALSE)
TwitterHome == Window("Twitter", "Home", FALSE)

\* the user has left the keyboard with (Cursor, main.py) in front
CursorAway == Window("Cursor", "main.py", TRUE)

AcctActivities ==
    {CursorMain, TwitterHome, Window("Finder", "Documents", TRUE), CursorAway}

\* f"{self.current_activity.app}:{self.current_activity.title}"
ActivityId(activity) == activity.app \o ":" \o activity.title

\* answers of the AI backend to the judging worker's calls
AcctResponses ==
    { Failure("error") } \cup
    { [kind |-> "json", classification |-> ca[1], conf_kind |-> "num",
       confidence |-> 40, action |-> ca[2], say |-> ""] :
      ca \in {<<"off_task", "none">>, <<"off_task", "yell">>} }

\* time.time() when a yell is handled, and the seconds from then to a judge() call
YellClock == CHOOSE n \in NowValues : TRUE
SinceYell == {10, 40}

\* SessionStats(start_time=...): start_time is the session's number, 0 is None;
\* the three lists are kept by their lengths
SessionStats(start) ==
    [start_time |-> start, end_time |-> FALSE,
     focus_seconds |-> 0, idle_seconds |-> 0, off_task_seconds |-> 0,
     thinking_seconds |-> 0, distractions_count |-> 0,
     best_focus_streak_seconds |-> 0, current_focus_streak_seconds |-> 0,
     distraction_logs |-> 0, annotations |-> 0, pomodoros_completed |-> 0]

\* the focus-streak update of the judging worker
GrowStreak(s) ==
    LET cur == s.current_focus_streak_seconds + judge_interval_sec
    IN  [s EXCEPT !.current_focus_streak_seconds = cur,
                  !.best_focus_streak_seconds = IF cur > @ THEN cur ELSE @]

\* the judging worker's update with idle also clearing the best streak
UpdateStatsClearBest(s, j) ==
    IF j.action \in {"warn", "yell"}
    THEN [s EXCEPT !.off_task_seconds = @ + judge_interval_sec]
    ELSE IF j.classification = "on_task"
    THEN GrowStreak([s EXCEPT !.focus_seconds = @ + judge_interval_sec])
    ELSE IF j.classification = "thinking"
    THEN GrowStreak([s EXCEPT !.thinking_seconds = @ + judge_interval_sec])
    ELSE IF j.classification = "idle"
    THEN [s EXCEPT !.idle_seconds = @ + judge_interval_sec,
                   !.current_focus_streak_seconds = 0,
                   !.best_focus_streak_seconds = 0]
    ELSE IF j.classification = "off_task"
    THEN [s EXCEPT !.off_task_seconds = @ + judge_interval_sec,
                   !.current_focus_streak_seconds = 0]
    ELSE s

\* judge_worker_loop: "Update stats based on classification AND action"
UpdateStats(s, j) ==
    IF j.action \in {"warn", "yell"}
    THEN [s EXCEPT !.off_task_seconds = @ + judge_interval_sec]
    ELSE IF j.classification = "on_task"
    THEN GrowStreak([s EXCEPT !.focus_seconds = @ + judge_interval_sec])
    ELSE IF j.classification = "thinking"
    THEN GrowStreak([s EXCEPT !.thinking_seconds = @ + judge_interval_sec])
    ELSE IF j.classification = "idle"
    THEN [s EXCEPT !.idle_seconds = @ + judge_interval_sec,
                   !.current_focus_streak_seconds = 0]
    ELSE IF j.classification = "off_task"
    THEN [s EXCEPT !.off_task_seconds = @ + judge_interval_sec,
                   !.current_focus_streak_seconds = 0]
    ELSE s

\* _handle_judgment_update counting every judgment as a distraction
CountDistractionAlways(s, j) ==
    [s EXCEPT !.distractions_count = @ + 1]

\* _handle_judgment_update: "Update stats based on judgment"
CountDistraction(s, j) ==
    IF j.classification = "off_task"
    THEN [s EXCEPT !.distractions_count = @ + 1]
    ELSE s

\* the judge() calls of the controller and of the judging worker: the backend's
\* answer and the time since the last yell are the environment's
\* what a judge() call made dt seconds after the last handled yell can return
JudgeOutcomesAt(activity, dt) ==
    { judge(activity, st_last_yell_time, config_cooldown_seconds, YellClock + dt,
            backend, has_personality, r1, Failure("error")) :
      r1 \in (IF backend = "none" THEN {Failure("error")} ELSE AcctResponses) }

JudgeOutcomes(activity) == UNION { JudgeOutcomesAt(activity, dt) : dt \in SinceYell }

\* a judgment_update; since_yell is the time from the last handled yell to the
\* judge() call when that call returned another yell, else 0
JudgmentUpdate(j, dt) ==
    [type |-> "judgment_update", judgment |-> j,
     since_yell |-> IF j.action = "yell" /\ st_last_yell_time # NoneTime THEN dt ELSE 0]

\* judge()'s writes to the pattern buffer and the off-task counter
TrackedPattern(activity, out) ==
    IF out.tracked
    THEN _track_activity_pattern(activity_pattern, activity.app, out.track_class)
    ELSE activity_pattern

TrackedCount(out) ==
    IF out.tracked THEN TrackCount(consecutive_off_task_count, out.track_class)
    ELSE consecutive_off_task_count

\* the variables of the other components that the session's judge() calls
\* leave alone
notAcctPatternVars ==
    <<backend, has_personality, jn, jin, jout, jcalls, pomoVars, sessVars, remVars,
      recencyVars, monVars, errVars>>

PollerOff == [pc |-> "off", last_activity |-> NoActivity]
PollerStarted == [pc |-> "run", last_activity |-> NoActivity]
JudgeWorkerOff ==
    [pc |-> "off", current_activity_id |-> "None", last_judged_activity_id |-> "None",
     current_judgment |-> NoJudgment]
JudgeWorkerStarted == [JudgeWorkerOff EXCEPT !.pc = "run"]

\* a worker thread that is not running its loop
Left(w) == w.pc \in {"off", "done"}

\* AppController.__init__ and ControllerState.__post_init__; the user is at window w
AcctInit(w) ==
    /\ st_session_active = FALSE
    /\ goal = "None"
    /\ stats = SessionStats(0)
    /\ st_sessions = 0
    /\ st_ctl = "idle"
    /\ st_pending = "None"
    /\ st_restart = FALSE
    /\ st_stop_event = FALSE
    /\ st_queue = << >>
    /\ st_current_activity = NoActivity
    /\ st_last_judgment_obj = NoJudgment
    /\ st_last_yell_time = NoneTime
    /\ st_window = w
    /\ st_windows = <<w>>
    /\ poller = PollerOff
    /\ judge_worker = JudgeWorkerOff
    /\ st_cycles = 0
    /\ st_drill = "none"
    /\ st_drill_stop = FALSE
    /\ st_timer = "stopped"
    /\ st_timer_count = 0
    /\ session_logs = << >>
    /\ st_off_handled = 0
    /\ st_calls = 0

\* start_session(goal) going straight to the new session
StartSessionNoEnd(g) ==
    /\ st_ctl = "idle"
    /\ st_sessions < MaxAcctSessions
    /\ st_pending' = g
    /\ st_restart' = st_session_active
    /\ st_ctl' = "start"
    /\ UNCHANGED <<st_session_active, goal, stats, st_sessions, st_stop_event, st_queue,
                   st_current_activity, st_last_judgment_obj, st_last_yell_time,
                   st_window, st_windows, poller, judge_worker, st_cycles, st_drill,
                   st_drill_stop, st_timer, st_timer_count, session_logs, st_off_handled,
                   st_calls, notAcctVars>>

\* start_session(goal): an active session is ended first; up to the join of
\* the workers in that case
AcctStartSession(g) ==
    /\ st_ctl = "idle"
    /\ st_sessions < MaxAcctSessions
    /\ st_pending' = g
    /\ st_restart' = st_session_active
    /\ IF st_session_active
       THEN /\ st_stop_event' = TRUE
            /\ st_drill_stop' = (st_drill_stop \/ st_drill = "running")
            /\ st_timer' = "stopped"
            /\ st_ctl' = "end_join"
       ELSE /\ st_ctl' = "start"
            /\ UNCHANGED <<st_stop_event, st_drill_stop, st_timer>>
    /\ UNCHANGED <<st_session_active, goal, stats, st_sessions, st_queue,
                   st_current_activity, st_last_judgment_obj, st_last_yell_time,
                   st_window, st_windows, poller, judge_worker, st_cycles, st_drill,
                   st_timer_count, session_logs, st_off_handled, st_calls, notAcctVars>>

\* end_session(), up to the join of the workers
AcctEndSession ==
    /\ st_ctl = "idle"
    /\ IF st_session_active
       THEN /\ st_stop_event' = TRUE
            /\ st_drill_stop' = (st_drill_stop \/ st_drill = "running")
            /\ st_timer' = "stopped"
            /\ st_ctl' = "end_join"
            /\ st_pending' = "None"
            /\ st_restart' = FALSE
       ELSE UNCHANGED <<st_stop_event, st_drill_stop, st_timer, st_ctl, st_pending,
                        st_restart>>
    /\ UNCHANGED <<st_session_active, goal, stats, st_sessions, st_queue,
                   st_current_activity, st_last_judgment_obj, st_last_yell_time,
                   st_window, st_windows, poller, judge_worker, st_cycles, st_drill,
                   st_timer_count, session_logs, st_off_handled, st_calls, notAcctVars>>

\* end_session() from the join on: the stats are finalized, the session log is
\* written, the session is inactive and the stop event is cleared
AcctEndFinish ==
    /\ st_ctl = "end_join"
    /\ Left(poller) /\ Left(judge_worker)
    /\ LET final == IF stats.start_time # 0
                    THEN [stats EXCEPT !.end_time = TRUE,
                                       !.pomodoros_completed = st_timer_count]
                    ELSE stats
       IN /\ stats' = final
          /\ session_logs' = Append(session_logs,
                                    [goal |-> goal, start_time |-> final.start_time,
                                     end_time |-> final.end_time, restart |-> st_restart])
    /\ st_session_active' = FALSE
    /\ st_stop_event' = FALSE
    /\ st_ctl' = IF st_restart THEN "start" ELSE "idle"
    /\ UNCHANGED <<goal, st_sessions, st_pending, st_restart, st_queue,
                   st_current_activity, st_last_judgment_obj, st_last_yell_time,
                   st_window, st_windows, poller, judge_worker, st_cycles, st_drill,
                   st_drill_stop, st_timer, st_timer_count, st_off_handled, st_calls,
                   notAcctVars>>

\* start_session(goal) after the old session, if any, has ended
AcctStartBody ==
    /\ st_ctl = "start"
    /\ st_session_active' = TRUE
    /\ goal' = st_pending
    /\ stats' = SessionStats(st_sessions + 1)
    /\ st_sessions' = st_sessions + 1
    /\ st_current_activity' = NoActivity
    /\ st_last_yell_time' = NoneTime
    /\ st_queue' = << >>
    /\ poller' = PollerStarted
    /\ judge_worker' = JudgeWorkerStarted
    /\ st_pending' = "None"
    /\ st_restart' = FALSE
    /\ st_ctl' = "idle"
    /\ activity_pattern' = << >>
    /\ consecutive_off_task_count' = 0
    /\ UNCHANGED <<st_stop_event, st_last_judgment_obj, st_window, st_windows, st_cycles,
                   st_drill, st_drill_stop, st_timer, st_timer_count, session_logs,
                   st_off_handled, st_calls, notAcctPatternVars>>

\* process_events_tick: an activity_update is taken and handled, with the
\* immediate judgment when the drill worker is alive
AcctHandleActivity ==
    /\ st_ctl = "idle"
    /\ st_queue # << >>
    /\ Head(st_queue).type = "activity_update"
    /\ st_queue' = Tail(st_queue)
    /\ st_current_activity' = Head(st_queue).activity
    /\ IF st_drill = "running" /\ st_session_active
       THEN \E out \in JudgeOutcomes(Head(st_queue).activity) :
              /\ st_last_judgment_obj' = out.judgment
              /\ st_drill_stop' = (st_drill_stop
                                     \/ out.judgment.classification \in {"on_task", "thinking"})
              /\ activity_pattern' = TrackedPattern(Head(st_queue).activity, out)
              /\ consecutive_off_task_count' = TrackedCount(out)
       ELSE UNCHANGED <<st_last_judgment_obj, st_drill_stop, activity_pattern,
                        consecutive_off_task_count>>
    /\ UNCHANGED <<st_session_active, goal, stats, st_sessions, st_ctl, st_pending,
                   st_restart, st_stop_event, st_last_yell_time, st_window, st_windows,
                   poller, judge_worker, st_cycles, st_drill, st_timer, st_timer_count,
                   session_logs, st_off_handled, st_calls, notAcctPatternVars>>

\* process_events_tick: a judgment_update is taken and handled
AcctHandleJudgment ==
    /\ st_ctl = "idle"
    /\ st_queue # << >>
    /\ Head(st_queue).type = "judgment_update"
    /\ st_queue' = Tail(st_queue)
    /\ LET j == Head(st_queue).judgment IN
       /\ st_last_judgment_obj' = j
       /\ stats' = CountDistraction(stats, j)
       /\ IF j.classification = "off_task"
          THEN /\ st_last_yell_time' = IF j.action = "yell" THEN YellClock ELSE st_last_yell_time
               /\ st_off_handled' = st_off_handled + 1
               /\ st_drill' = "running"
               /\ st_drill_stop' = (st_drill = "running" /\ st_drill_stop)
          ELSE /\ st_drill_stop' = (st_drill_stop \/ st_drill = "running")
               /\ UNCHANGED <<st_last_yell_time, st_off_handled, st_drill>>
    /\ UNCHANGED <<st_session_active, goal, st_sessions, st_ctl, st_pending, st_restart,
                   st_stop_event, st_current_activity, st_window, st_windows, poller,
                   judge_worker, st_cycles, st_timer, st_timer_count, session_logs,
                   st_calls, notAcctVars>>

\* pause_session()
pause_session ==
    /\ st_ctl = "idle"
    /\ st_timer' = IF st_session_active /\ st_timer = "work" THEN "paused" ELSE st_timer
    /\ UNCHANGED <<st_session_active, goal, stats, st_sessions, st_ctl, st_pending,
                   st_restart, st_stop_event, st_queue, st_current_activity,
                   st_last_judgment_obj, st_last_yell_time, st_window, st_windows,
                   poller, judge_worker, st_cycles, st_drill, st_drill_stop,
                   st_timer_count, session_logs, st_off_handled, st_calls, notAcctVars>>

\* resume_session()
resume_session ==
    /\ st_ctl = "idle"
    /\ st_timer' = IF st_session_active /\ st_timer = "paused" THEN "work" ELSE st_timer
    /\ UNCHANGED <<st_session_active, goal, stats, st_sessions, st_ctl, st_pending,
                   st_restart, st_stop_event, st_queue, st_current_activity,
                   st_last_judgment_obj, st_last_yell_time, st_window, st_windows,
                   poller, judge_worker, st_cycles, st_drill, st_drill_stop,
                   st_timer_count, session_logs, st_off_handled, st_calls, notAcctVars>>

\* change_goal(new_goal)
change_goal(new_goal) ==
    /\ st_ctl = "idle"
    /\ st_calls < MaxCalls
    /\ st_calls' = st_calls + 1
    /\ goal' = new_goal
    /\ stats' = [stats EXCEPT !.annotations = @ + 1]
    /\ UNCHANGED <<st_session_active, st_sessions, st_ctl, st_pending, st_restart,
                   st_stop_event, st_queue, st_current_activity, st_last_judgment_obj,
                   st_last_yell_time, st_window, st_windows, poller, judge_worker,
                   st_cycles, st_drill, st_drill_stop, st_timer, st_timer_count,
                   session_logs, st_off_handled, notAcctVars>>

\* report_distraction(reason)
report_distraction ==
    /\ st_ctl = "idle"
    /\ st_calls < MaxCalls
    /\ st_calls' = st_calls + 1
    /\ stats' = [stats EXCEPT !.distraction_logs = @ + 1, !.distractions_count = @ + 1]
    /\ UNCHANGED <<st_session_active, goal, st_sessions, st_ctl, st_pending, st_restart,
                   st_stop_event, st_queue, st_current_activity, st_last_judgment_obj,
                   st_last_yell_time, st_window, st_windows, poller, judge_worker,
                   st_cycles, st_drill, st_drill_stop, st_timer, st_timer_count,
                   session_logs, st_off_handled, notAcctVars>>

\* the start_pomodoro command: pomodoro.start_work()
StartPomodoro ==
    /\ st_ctl = "idle"
    /\ st_timer # "work"
    /\ st_calls < MaxCalls
    /\ st_calls' = st_calls + 1
    /\ st_timer' = "work"
    /\ UNCHANGED <<st_session_active, goal, stats, st_sessions, st_ctl, st_pending,
                   st_restart, st_stop_event, st_queue, st_current_activity,
                   st_last_judgment_obj, st_last_yell_time, st_window, st_windows,
                   poller, judge_worker, st_cycles, st_drill, st_drill_stop,
                   st_timer_count, session_logs, st_off_handled, notAcctVars>>

\* a work period completes: the timer counts it and calls
\* _on_pomodoro_complete("work"); a break follows
_on_pomodoro_complete ==
    /\ st_timer = "work"
    /\ st_timer_count' = st_timer_count + 1
    /\ stats' = [stats EXCEPT !.pomodoros_completed = @ + 1]
    /\ st_timer' = "break"
    /\ UNCHANGED <<st_session_active, goal, st_sessions, st_ctl, st_pending, st_restart,
                   st_stop_event, st_queue, st_current_activity, st_last_judgment_obj,
                   st_last_yell_time, st_window, st_windows, poller, judge_worker,
                   st_cycles, st_drill, st_drill_stop, session_logs, st_off_handled,
                   st_calls, notAcctVars>>

\* the user changes window, or leaves the keyboard
UserSwitch ==
    /\ Len(st_windows) <= MaxSwitches
    /\ \E w \in AcctActivities \ {st_window} :
         /\ st_window' = w
         /\ st_windows' = Append(st_windows, w)
    /\ UNCHANGED <<st_session_active, goal, stats, st_sessions, st_ctl, st_pending,
                   st_restart, st_stop_event, st_queue, st_current_activity,
                   st_last_judgment_obj, st_last_yell_time, poller, judge_worker,
                   st_cycles, st_drill, st_drill_stop, st_timer, st_timer_count,
                   session_logs, st_off_handled, st_calls, notAcctVars>>

\* activity_poller_loop: one pass
AcctPollerPoll ==
    /\ poller.pc = "run"
    /\ IF st_stop_event
       THEN /\ poller' = [poller EXCEPT !.pc = "done"]
            /\ UNCHANGED st_queue
       ELSE /\ poller.last_activity = NoActivity
               \/ st_window.app # poller.last_activity.app
               \/ st_window.title # poller.last_activity.title
            /\ Len(st_queue) < MaxAcctQueue
            /\ st_queue' = Append(st_queue, [type |-> "activity_update", activity |-> st_window])
            /\ poller' = [poller EXCEPT !.last_activity = st_window]
    /\ UNCHANGED <<st_session_active, goal, stats, st_sessions, st_ctl, st_pending,
                   st_restart, st_stop_event, st_current_activity, st_last_judgment_obj,
                   st_last_yell_time, st_window, st_windows, judge_worker, st_cycles,
                   st_drill, st_drill_stop, st_timer, st_timer_count, session_logs,
                   st_off_handled, st_calls, notAcctVars>>

\* judge_worker_loop: the loop test, `if self.current_activity` and the
\* activity id; an activity already judged goes on to the stats update, which
\* ends the cycle
JudgeWorkerRead ==
    /\ judge_worker.pc = "run"
    /\ IF st_stop_event
       THEN /\ judge_worker' = [judge_worker EXCEPT !.pc = "done"]
            /\ UNCHANGED <<stats, st_cycles>>
       ELSE /\ st_current_activity # NoActivity
            /\ st_cycles < MaxCycles
            /\ IF judge_worker.last_judged_activity_id # ActivityId(st_current_activity)
               THEN /\ judge_worker' =
                         [judge_worker EXCEPT
                            !.current_activity_id = ActivityId(st_current_activity),
                            !.pc = "judge"]
                    /\ UNCHANGED <<stats, st_cycles>>
               ELSE /\ stats' = UpdateStats(stats, judge_worker.current_judgment)
                    /\ st_cycles' = st_cycles + 1
                    /\ UNCHANGED judge_worker
    /\ UNCHANGED <<st_session_active, goal, st_sessions, st_ctl, st_pending, st_restart,
                   st_stop_event, st_queue, st_current_activity, st_last_judgment_obj,
                   st_last_yell_time, st_window, st_windows, poller, st_drill,
                   st_drill_stop, st_timer, st_timer_count, session_logs, st_off_handled,
                   st_calls, notAcctVars>>

\* judge_worker_loop: judge(activity=self.current_activity), the
\* judgment_update it queues and the stats update, which ends the cycle
JudgeWorkerJudge ==
    /\ judge_worker.pc = "judge"
    /\ Len(st_queue) < MaxAcctQueue
    /\ \E dt \in SinceYell : \E out \in JudgeOutcomesAt(st_current_activity, dt) :
         /\ st_queue' = Append(st_queue, JudgmentUpdate(out.judgment, dt))
         /\ judge_worker' =
              [judge_worker EXCEPT
                 !.current_judgment = out.judgment,
                 !.last_judged_activity_id = judge_worker.current_activity_id,
                 !.pc = "run"]
         /\ stats' = UpdateStats(stats, out.judgment)
         /\ activity_pattern' = TrackedPattern(st_current_activity, out)
         /\ consecutive_off_task_count' = TrackedCount(out)
    /\ st_cycles' = st_cycles + 1
    /\ UNCHANGED <<st_session_active, goal, st_sessions, st_ctl, st_pending, st_restart,
                   st_stop_event, st_current_activity, st_last_judgment_obj,
                   st_last_yell_time, st_window, st_windows, poller, st_drill,
                   st_drill_stop, st_timer, st_timer_count, session_logs, st_off_handled,
                   st_calls, notAcctPatternVars>>

\* drill_loop: the loop test fails or the `break` is taken
AcctDrillExit ==
    /\ st_drill = "running"
    /\ \/ st_drill_stop
       \/ ~st_session_active
       \/ st_last_judgment_obj.classification # "off_task"
    /\ st_drill' = "none"
    /\ UNCHANGED <<st_session_active, goal, stats, st_sessions, st_ctl, st_pending,
                   st_restart, st_stop_event, st_queue, st_current_activity,
                   st_last_judgment_obj, st_last_yell_time, st_window, st_windows,
                   poller, judge_worker, st_cycles, st_drill_stop, st_timer,
                   st_timer_count, session_logs, st_off_handled, st_calls, notAcctVars>>

\* exceptions raised in the workers of a run
MaxErrors == 2

ErrorEvent(message) == [type |-> "error_event", message |-> message]

\* activity_poller_loop: a pass in which get_current_activity() (or the
\* comparison of its result) raises: the except branch queues an error_event,
\* last_activity stays, and the loop goes to its wait
PollerRaises ==
    /\ poller.pc = "run"
    /\ ~st_stop_event
    /\ worker_errors.poller + worker_errors.judge < MaxErrors
    /\ Len(st_queue) < MaxAcctQueue
    /\ st_queue' = Append(st_queue, ErrorEvent("Activity polling error"))
    /\ worker_errors' = [worker_errors EXCEPT !.poller = @ + 1]
    /\ UNCHANGED <<st_session_active, goal, stats, st_sessions, st_ctl, st_pending,
                   st_restart, st_stop_event, st_current_activity, st_last_judgment_obj,
                   st_last_yell_time, st_window, st_windows, poller, judge_worker,
                   st_cycles, st_drill, st_drill_stop, st_timer, st_timer_count,
                   session_logs, st_off_handled, st_calls>>
    /\ UNCHANGED <<judgeVars, pomoVars, sessVars, remVars, recencyVars, monVars>>

\* a judging worker that an exception ends: it is logged and queued, and the
\* thread returns
JudgeWorkerRaisesAndEnds ==
    /\ judge_worker.pc \in {"run", "judge"}
    /\ judge_worker.pc = "run" => ~st_stop_event
    /\ st_cycles < MaxCycles
    /\ worker_errors.poller + worker_errors.judge < MaxErrors
    /\ Len(st_queue) < MaxAcctQueue
    /\ st_queue' = Append(st_queue, ErrorEvent("Judge error"))
    /\ judge_worker' = [judge_worker EXCEPT !.pc = "done"]
    /\ st_cycles' = st_cycles + 1
    /\ worker_errors' = [worker_errors EXCEPT !.judge = @ + 1]
    /\ UNCHANGED <<st_session_active, goal, stats, st_sessions, st_ctl, st_pending,
                   st_restart, st_stop_event, st_current_activity, st_last_judgment_obj,
                   st_last_yell_time, st_window, st_windows, poller, st_drill,
                   st_drill_stop, st_timer, st_timer_count, session_logs, st_off_handled,
                   st_calls>>
    /\ UNCHANGED <<judgeVars, pomoVars, sessVars, remVars, recencyVars, monVars>>

\* judge_worker_loop: a cycle in which the try block raises before a judgment
\* is there, at the read of the activity or inside judge(): the except branch
\* queues an error_event, the worker's locals stay, and the loop goes to its
\* wait
JudgeWorkerRaises ==
    /\ judge_worker.pc \in {"run", "judge"}
    /\ judge_worker.pc = "run" => ~st_stop_event
    /\ st_cycles < MaxCycles
    /\ worker_errors.poller + worker_errors.judge < MaxErrors
    /\ Len(st_queue) < MaxAcctQueue
    /\ st_queue' = Append(st_queue, ErrorEvent("Judge error"))
    /\ judge_worker' = [judge_worker EXCEPT !.pc = "run"]
    /\ st_cycles' = st_cycles + 1
    /\ worker_errors' = [worker_errors EXCEPT !.judge = @ + 1]
    /\ UNCHANGED <<st_session_active, goal, stats, st_sessions, st_ctl, st_pending,
                   st_restart, st_stop_event, st_current_activity, st_last_judgment_obj,
                   st_last_yell_time, st_window, st_windows, poller, st_drill,
                   st_drill_stop, st_timer, st_timer_count, session_logs, st_off_handled,
                   st_calls>>
    /\ UNCHANGED <<judgeVars, pomoVars, sessVars, remVars, recencyVars, monVars>>

\* process_events_tick: an error_event is taken; _handle_error logs it
_handle_error ==
    /\ st_ctl = "idle"
    /\ st_queue # << >>
    /\ Head(st_queue).type = "error_event"
    /\ st_queue' = Tail(st_queue)
    /\ UNCHANGED <<st_session_active, goal, stats, st_sessions, st_ctl, st_pending,
                   st_restart, st_stop_event, st_current_activity, st_last_judgment_obj,
                   st_last_yell_time, st_window, st_windows, poller, judge_worker,
                   st_cycles, st_drill, st_drill_stop, st_timer, st_timer_count,
                   session_logs, st_off_handled, st_calls, notAcctVars>>

AcctNext ==
    \/ \E g \in {SessionGoals[(st_sessions % Len(SessionGoals)) + 1]} : AcctStartSession(g)
    \/ AcctEndSession
    \/ AcctEndFinish
    \/ AcctStartBody
    \/ AcctHandleActivity
    \/ AcctHandleJudgment
    \/ pause_session
    \/ resume_session
    \/ \E g \in NewGoals : change_goal(g)
    \/ report_distraction
    \/ StartPomodoro
    \/ _on_pomodoro_complete
    \/ UserSwitch
    \/ AcctPollerPoll
    \/ JudgeWorkerRead
    \/ JudgeWorkerJudge
    \/ AcctDrillExit

\* the workers of a session whose sensor and judge may raise, with the
\* controller starting and ending sessions and handling the events
WorkersNext ==
    \/ \E g \in {SessionGoals[(st_sessions % Len(SessionGoals)) + 1]} : AcctStartSession(g)
    \/ AcctEndSession
    \/ AcctEndFinish
    \/ AcctStartBody
    \/ AcctHandleActivity
    \/ AcctHandleJudgment
    \/ _handle_error
    \/ UserSwitch
    \/ AcctPollerPoll
    \/ PollerRaises
    \/ JudgeWorkerRead
    \/ JudgeWorkerJudge
    \/ JudgeWorkerRaises
    \/ AcctDrillExit

-----------------------------------------------------------------------------
(* SpecJudge: judge() called on arbitrary inputs                           *)

MaxJudgeCalls == 1

IdleValues == {0, 60}

Activities ==
    { [app |-> w[1], title |-> w[2], is_afk |-> afk, is_thinking |-> th,
       idle_duration_seconds |-> idle] :
      w \in Windows, afk \in BOOLEAN, th \in BOOLEAN, idle \in IdleValues }

\* time.time() at the call, and the last_yell_time / cooldown_seconds arguments
LastYellValues == {NoneTime, 70, 90}
CooldownValues == {30}

\* What the backend may answer.  "absent" is a missing key, "bogus" a value
\* outside the enum; conf_kind "bad" is a confidence float() rejects.
RespClassifications == {"on_task", "off_task", "thinking", "bogus", "absent"}
RespActions == {"none", "warn", "yell", "bogus", "absent"}
RespConfidences == {-50, 40, 150}

JsonResponses ==
    { [kind |-> "json", classification |-> c, conf_kind |-> "num",
       confidence |-> f, action |-> a, say |-> ""] :
      c \in RespClassifications, f \in RespConfidences, a \in RespActions }
    \cup
    { [kind |-> "json", classification |-> c, conf_kind |-> k,
       confidence |-> 0, action |-> a, say |-> "Back to work"] :
      c \in RespClassifications, k \in {"absent", "bad"}, a \in RespActions }

Responses ==
    JsonResponses \cup {Failure("not_json"), Failure("not_object"), Failure("error")}

\* answers to the retry
RetryResponses ==
    { Failure("not_json"), Failure("not_object"), Failure("error"),
      [kind |-> "json", classification |-> "on_task", conf_kind |-> "num",
       confidence |-> 40, action |-> "none", say |-> "ok"],
      [kind |-> "json", classification |-> "off_task", conf_kind |-> "num",
       confidence |-> 40, action |-> "yell", say |-> ""],
      [kind |-> "json", classification |-> "bogus", conf_kind |-> "num",
       confidence |-> 150, action |-> "bogus", say |-> ""],
      [kind |-> "json", classification |-> "off_task", conf_kind |-> "bad",
       confidence |-> 0, action |-> "warn", say |-> ""] }

-----------------------------------------------------------------------------
(* The recency buffers: the judge's activity_pattern with detect_goal_drift *)
(* and the controller's activity_history.                                   *)

\* _handle_activity_update keeps the last 10 events
HistoryCap == 10

\* a history that lets go of the arriving event when it is full
AppendHistoryDropNewest(history, activity) ==
    LET appended == Append(history, activity)
    IN  IF Len(appended) > HistoryCap THEN SubSeq(appended, 1, HistoryCap) ELSE appended

\* _handle_activity_update: activity_history.append(activity), then pop(0)
\* when the list is longer than the cap
AppendHistory(history, activity) ==
    LET appended == Append(history, activity)
    IN  IF Len(appended) > HistoryCap THEN Tail(appended) ELSE appended

\* detect_goal_drift: no drift below 5 entries, else 6 of the last 10
DriftMinEntries == 5
DriftWindow == 10
DriftThreshold == 6

\* Python's seq[-n:]
LastEntries(seq, n) ==
    IF Len(seq) > n THEN SubSeq(seq, Len(seq) - n + 1, Len(seq)) ELSE seq

detect_goal_drift(pattern) ==
    IF Len(pattern) < DriftMinEntries THEN FALSE
    ELSE LET recent == LastEntries(pattern, DriftWindow)
             off_task_count ==
                 Cardinality({i \in 1..Len(recent) : Contains(recent[i], "off_task")})
         IN  off_task_count >= DriftThreshold

\* the verdicts the backend gives in these runs: the editor is on task, the
\* feed is off task, and so is not a task tracker that is called off_task_log
JudgedPairs ==
    {<<"Cursor", "on_task">>, <<"Twitter", "off_task">>, <<"off_task_log", "on_task">>}

\* the windows the user goes back and forth between
HistoryWindows == <<CursorMain, TwitterHome>>

\* judgments tracked and activity updates handled before a run starts, and in it
MaxTrackedBefore == 20
MaxHandledBefore == 10
MaxRecorded == 4

\* the pattern after n judgments of the same app with the same verdict
RECURSIVE TrackedTimes(_, _)
TrackedTimes(pair, n) ==
    IF n = 0 THEN << >>
    ELSE _track_activity_pattern(TrackedTimes(pair, n - 1), pair[1], pair[2])

\* the history after n activity updates of a user who alternates between the
\* two windows
RECURSIVE HandledTimes(_)
HandledTimes(n) ==
    IF n = 0 THEN << >>
    ELSE AppendHistory(HandledTimes(n - 1), HistoryWindows[1 + (n % 2)])

\* the controller as built: no history, no judge() call made
RecencyInit ==
    /\ activity_history = << >>
    /\ goal_drift = FALSE
    /\ recorded = 0

\* judge() on the backend path: _build_prompt asks detect_goal_drift() for its
\* warning, and the verdict that comes back is tracked
JudgeTracked(pair) ==
    /\ recorded < MaxRecorded
    /\ goal_drift' = detect_goal_drift(activity_pattern)
    /\ activity_pattern' = _track_activity_pattern(activity_pattern, pair[1], pair[2])
    /\ consecutive_off_task_count' = TrackCount(consecutive_off_task_count, pair[2])
    /\ recorded' = recorded + 1
    /\ UNCHANGED <<activity_history, backend, has_personality, jn, jin, jout, jcalls>>
    /\ UNCHANGED <<pomoVars, sessVars, remVars, acctVars, monVars, errVars>>

\* _handle_activity_update with no drill worker alive; the poller emits an
\* update only for a window other than the last one
HandleActivityUpdate(activity) ==
    /\ recorded < MaxRecorded
    /\ Len(activity_history) > 0 => activity # activity_history[Len(activity_history)]
    /\ activity_history' = AppendHistory(activity_history, activity)
    /\ recorded' = recorded + 1
    /\ UNCHANGED <<goal_drift, judgeVars, pomoVars, sessVars, remVars, acctVars, monVars,
                   errVars>>

RecencyNext ==
    \/ \E pair \in JudgedPairs : JudgeTracked(pair)
    \/ \E i \in 1..Len(HistoryWindows) : HandleActivityUpdate(HistoryWindows[i])

-----------------------------------------------------------------------------
(* MotivationMonitor: the periodic check of the monitor's worker.  A        *)
(* confidence is held in hundredths.                                        *)

MotivationState(s, conf, suggestion) ==
    [state |-> s, confidence |-> conf, suggestion |-> suggestion]

\* self.current_state = None
NoMotivationState == MotivationState("none", 0, "")

\* MotivationState.should_interrupt
should_interrupt(s) ==
    IF s.state = "flow" THEN FALSE
    ELSE IF s.state = "productive" /\ s.confidence < 80 THEN FALSE
    ELSE TRUE

FLOW_MIN_FOCUS_MINUTES == 10
FLOW_MAX_IDLE_SECONDS == 30
FLOW_MAX_APP_SWITCHES == 2
DISTRACTED_MIN_SWITCHES == 5
FATIGUED_MIN_MINUTES == 45
STRUGGLING_IDLE_THRESHOLD == 120

_detect_state_rules(focus_minutes, app_switches, idle_seconds) ==
    IF /\ focus_minutes >= FLOW_MIN_FOCUS_MINUTES
       /\ app_switches <= FLOW_MAX_APP_SWITCHES
       /\ idle_seconds <= FLOW_MAX_IDLE_SECONDS
    THEN MotivationState("flow", 80, "")
    ELSE IF app_switches >= DISTRACTED_MIN_SWITCHES
    THEN MotivationState("distracted", 70, "Try focusing on one thing at a time.")
    ELSE IF focus_minutes >= FATIGUED_MIN_MINUTES
    THEN MotivationState("fatigued", 60, "You've been working a while. Consider a break.")
    ELSE IF idle_seconds >= STRUGGLING_IDLE_THRESHOLD
    THEN MotivationState("struggling", 60, "Need help? Try breaking down the problem.")
    ELSE MotivationState("productive", 50, "Keep up the good work!")

\* personality_manager.get_phrase(phrase_type): some phrase of that type,
\* never an empty one; it stands here under the name of its type
get_phrase(phrase_type) == phrase_type

\* _provide_encouragement: the phrase it gives to tts_service.speak, "" when
\* it speaks nothing
EncouragementPhrase(s, personality) ==
    IF s.state = "flow" THEN ""
    ELSE LET phrase ==
                 IF ~personality THEN ""
                 ELSE IF s.state = "struggling" THEN get_phrase("encouragement_stuck")
                 ELSE IF s.state = "distracted" THEN get_phrase("refocus_gentle")
                 ELSE IF s.state = "fatigued" THEN get_phrase("break_suggestion")
                 ELSE IF s.state = "productive" /\ s.confidence > 70
                 THEN get_phrase("encouragement_general")
                 ELSE ""
         IN  IF phrase = "" /\ s.suggestion # "" THEN s.suggestion ELSE phrase

\* what ai_client.detect_motivation_state can give back: a dict, or an
\* exception of the backend
MotivationStates == {"flow", "productive", "struggling", "distracted", "fatigued"}
AiConfidences == {50, 75, 90}
AiSuggestions == {"", "Stretch your legs."}
NoAnswer == [kind |-> "error", state |-> "none", confidence |-> 0, suggestion |-> ""]
AiAnswers ==
    {[kind |-> "ok", state |-> s, confidence |-> c, suggestion |-> g] :
        s \in MotivationStates, c \in AiConfidences, g \in AiSuggestions}
    \cup {NoAnswer}

\* minutes into the session and app switches in the last five minutes at a check
FocusMinuteValues == {1, 10, 45}
AppSwitchValues == {0, 3, 5}

MaxChecks == 2

\* no exception has been raised in a worker
NoErrors == [poller |-> 0, judge |-> 0]

\* the monitor after start(goal)
MonitorInit ==
    /\ mon_current_state = NoMotivationState
    /\ mon_focus_minutes = 0
    /\ mon_spoken = << >>
    /\ mon_checks = 0

\* _check_motivation: detect the state with the backend, or with the rules
\* when there is none or it fails, store it and call _provide_encouragement
_check_motivation(focus_minutes, app_switches, answer) ==
    /\ mon_checks < MaxChecks
    /\ focus_minutes >= mon_focus_minutes
    /\ backend = "none" => answer = NoAnswer
    /\ LET new_state ==
               IF backend # "none" /\ answer.kind = "ok"
               THEN MotivationState(answer.state, answer.confidence, answer.suggestion)
               ELSE _detect_state_rules(focus_minutes, app_switches, 0)
           phrase == EncouragementPhrase(new_state, has_personality)
       IN  /\ mon_current_state' = new_state
           /\ mon_spoken' = IF phrase # "" THEN Append(mon_spoken, phrase) ELSE mon_spoken
    /\ mon_focus_minutes' = focus_minutes
    /\ mon_checks' = mon_checks + 1
    /\ UNCHANGED <<judgeVars, pomoVars, sessVars, remVars, acctVars, recencyVars, errVars>>

MonitorNext ==
    \E focus_minutes \in FocusMinuteValues, app_switches \in AppSwitchValues,
       answer \in AiAnswers :
        _check_motivation(focus_minutes, app_switches, answer)

NoCall == [activity |-> NoActivity, last_yell_time |-> NoneTime,
           cooldown_seconds |-> 0, now |-> 0]

JudgeInit ==
    /\ activity_pattern = << >>
    /\ consecutive_off_task_count = 0
    /\ backend \in {"ai_client", "ollama", "none"}
    /\ has_personality \in BOOLEAN
    /\ jn = 0
    /\ jin = NoCall
    /\ jout = NoJudgment
    /\ jcalls = << >>
    /\ PomodoroInit
    /\ SessionInit
    /\ RecencyInit
    /\ MonitorInit
    /\ worker_errors = NoErrors
    /\ ReminderInit(<< >>)
    /\ AcctInit(CursorMain)

\* one call of judge(goal, activity, history, last_yell_time, cooldown_seconds)
JudgeCall ==
    /\ jn < MaxJudgeCalls
    /\ jin = NoCall
    /\ \E activity \in Activities, lyt \in LastYellValues, cd \in CooldownValues,
          now \in NowValues, r1 \in Responses :
       \E r2 \in (IF r1.kind = "not_json" THEN RetryResponses ELSE {Failure("error")}) :
         LET out == judge(activity, lyt, cd, now, backend, has_personality, r1, r2) IN
         /\ jin' = [activity |-> activity, last_yell_time |-> lyt,
                    cooldown_seconds |-> cd, now |-> now]
         /\ jout' = out.judgment
         /\ jcalls' = SubSeq(<<r1, r2>>, 1, out.calls)
         /\ activity_pattern' =
               IF out.tracked
               THEN _track_activity_pattern(activity_pattern, activity.app, out.track_class)
               ELSE activity_pattern
         /\ consecutive_off_task_count' =
               IF out.tracked
               THEN TrackCount(consecutive_off_task_count, out.track_class)
               ELSE consecutive_off_task_count
    /\ jn' = jn + 1
    /\ UNCHANGED <<backend, has_personality, notJudgeVars>>

\* the caller has taken the returned Judgment; the next call may be made
JudgeReturn ==
    /\ jin # NoCall
    /\ jin' = NoCall
    /\ jout' = NoJudgment
    /\ jcalls' = << >>
    /\ UNCHANGED <<activity_pattern, consecutive_off_task_count, backend,
                   has_personality, jn, notJudgeVars>>

\* reset_patterns()
ResetPatterns ==
    /\ jn > 0
    /\ jin = NoCall
    /\ activity_pattern' = << >>
    /\ consecutive_off_task_count' = 0
    /\ UNCHANGED <<backend, has_personality, jn, jin, jout, jcalls, notJudgeVars>>

\* a cycle of the judging worker that credits every judgment by its
\* classification alone
JudgeCycleByClass ==
    /\ jin # NoCall
    /\ st_cycles < MaxCycles
    /\ stats' = UpdateStats(stats, [jout EXCEPT !.action = "none"])
    /\ st_cycles' = st_cycles + 1
    /\ UNCHANGED <<judgeVars, pomoVars, sessVars, remVars, recencyVars, monVars, errVars>>
    /\ UNCHANGED <<st_session_active, goal, st_sessions, st_ctl, st_pending, st_restart,
                   st_stop_event, st_queue, st_current_activity, st_last_judgment_obj,
                   st_last_yell_time, st_window, st_windows, poller, judge_worker,
                   st_drill, st_drill_stop, st_timer, st_timer_count, session_logs,
                   st_off_handled, st_calls>>

\* judge_worker_loop: the stats update of a cycle whose current_judgment is
\* the Judgment that judge() returned
JudgeCycle ==
    /\ jin # NoCall
    /\ st_cycles < MaxCycles
    /\ stats' = UpdateStats(stats, jout)
    /\ st_cycles' = st_cycles + 1
    /\ UNCHANGED <<judgeVars, pomoVars, sessVars, remVars, recencyVars, monVars, errVars>>
    /\ UNCHANGED <<st_session_active, goal, st_sessions, st_ctl, st_pending, st_restart,
                   st_stop_event, st_queue, st_current_activity, st_last_judgment_obj,
                   st_last_yell_time, st_window, st_windows, poller, judge_worker,
                   st_drill, st_drill_stop, st_timer, st_timer_count, session_logs,
                   st_off_handled, st_calls>>

JudgeNext == JudgeCall \/ JudgeReturn \/ ResetPatterns \/ JudgeCycle

SpecJudge == JudgeInit /\ [][JudgeNext]_vars

\* the timer alone: no judge() call is made
PomodoroOnlyInit ==
    /\ JudgeInit
    /\ backend = "none"
    /\ has_personality = FALSE

SpecPomodoro == PomodoroOnlyInit /\ [][PomodoroNext]_vars

\* the controller's sessions alone
SpecSession == PomodoroOnlyInit /\ [][SessionNext]_vars

\* a reminder worker alone, for every list of offsets
ReminderOnlyInit ==
    /\ activity_pattern = << >>
    /\ consecutive_off_task_count = 0
    /\ backend = "none"
    /\ has_personality = FALSE
    /\ jn = 0
    /\ jin = NoCall
    /\ jout = NoJudgment
    /\ jcalls = << >>
    /\ PomodoroInit
    /\ SessionInit
    /\ RecencyInit
    /\ MonitorInit
    /\ worker_errors = NoErrors
    /\ \E intervals \in OffsetLists : ReminderInit(intervals)
    /\ AcctInit(CursorMain)

SpecReminder == ReminderOnlyInit /\ [][ReminderNext]_vars

\* the controller's accounting, with the rule-based fallback or an AI backend
\* and the user at any window when the controller is built
AcctOnlyInit ==
    /\ activity_pattern = << >>
    /\ consecutive_off_task_count = 0
    /\ backend \in {"none", "ai_client"}
    /\ has_personality = FALSE
    /\ jn = 0
    /\ jin = NoCall
    /\ jout = NoJudgment
    /\ jcalls = << >>
    /\ PomodoroInit
    /\ SessionInit
    /\ RecencyInit
    /\ MonitorInit
    /\ worker_errors = NoErrors
    /\ ReminderInit(<< >>)
    /\ \E w \in AcctActivities : AcctInit(w)

SpecStats == AcctOnlyInit /\ [][AcctNext]_vars

\* the same controller with workers whose iterations may raise
SpecWorkers == AcctOnlyInit /\ [][WorkersNext]_vars

\* the recency buffers alone, after any number of judgments of one app and of
\* activity updates
RecencyOnlyInit ==
    /\ \E pair \in JudgedPairs, n \in 0..MaxTrackedBefore :
           /\ activity_pattern = TrackedTimes(pair, n)
           /\ consecutive_off_task_count = (IF pair[2] = "off_task" THEN n ELSE 0)
           /\ goal_drift = (n > 0 /\ detect_goal_drift(TrackedTimes(pair, n - 1)))
    /\ \E n \in 0..MaxHandledBefore : activity_history = HandledTimes(n)
    /\ recorded = 0
    /\ backend = "ai_client"
    /\ has_personality = FALSE
    /\ jn = 0
    /\ jin = NoCall
    /\ jout = NoJudgment
    /\ jcalls = << >>
    /\ PomodoroInit
    /\ SessionInit
    /\ MonitorInit
    /\ worker_errors = NoErrors
    /\ ReminderInit(<< >>)
    /\ AcctInit(CursorMain)

SpecRecency == RecencyOnlyInit /\ [][RecencyNext]_vars

\* the motivation monitor alone, with and without a backend and a personality
MonitorOnlyInit ==
    /\ activity_pattern = << >>
    /\ consecutive_off_task_count = 0
    /\ backend \in {"none", "ai_client"}
    /\ has_personality \in BOOLEAN
    /\ jn = 0
    /\ jin = NoCall
    /\ jout = NoJudgment
    /\ jcalls = << >>
    /\ PomodoroInit
    /\ SessionInit
    /\ RecencyInit
    /\ MonitorInit
    /\ worker_errors = NoErrors
    /\ ReminderInit(<< >>)
    /\ AcctInit(CursorMain)

SpecMotivation == MonitorOnlyInit /\ [][MonitorNext]_vars

-----------------------------------------------------------------------------
(* Properties of judge(), checked under SpecJudge                          *)

Called == jin # NoCall
ShortCircuited == jin.activity.is_afk \/ jin.activity.is_thinking
InCooldown ==
    /\ jin.last_yell_time # NoneTime
    /\ jin.now - jin.last_yell_time < jin.cooldown_seconds
OnDistraction == HasDistractionKeyword(jin.activity.app, jin.activity.title)

\* the response _validate_judgment turned into the returned Judgment, if any
Accepted(d) == d.kind = "json" /\ d.conf_kind # "bad"
LastAccepted == jcalls # << >> /\ Accepted(jcalls[Len(jcalls)])

\* C2: inside the cooldown window (last_yell_time set and now - last_yell_time
\* < cooldown_seconds) judge() never returns action yell, whichever path
\* produced the verdict.
C2_NoYellInCooldown ==
    (Called /\ InCooldown) => jout.action # "yell"

\* C3: a non-AFK, non-thinking activity whose app or title contains a
\* distraction keyword, judged with no cooldown in force, is returned as
\* off_task with confidence >= 0.9 and action yell, whatever the backend did.
C3_DistractionAlwaysYell ==
    (Called /\ ~ShortCircuited /\ OnDistraction /\ jin.last_yell_time = NoneTime)
        => (/\ jout.classification = "off_task"
            /\ jout.confidence >= 90
            /\ jout.action = "yell")

\* C6 (as stated): judge() returns a Judgment whose fields are in their enums
\* and range, and an out-of-enum classification comes back as unknown, an
\* out-of-enum action as none.
C6_SanitizedToDefaults ==
    Called =>
        /\ jout.classification \in Classifications
        /\ jout.action \in Actions
        /\ jout.confidence >= 0 /\ jout.confidence <= 100
        /\ (~ShortCircuited /\ jcalls # << >>
            /\ jcalls[Len(jcalls)].kind = "json"
            /\ jcalls[Len(jcalls)].classification = "bogus")
              => jout.classification = "unknown"
        /\ (~ShortCircuited /\ jcalls # << >>
            /\ jcalls[Len(jcalls)].kind = "json"
            /\ jcalls[Len(jcalls)].action = "bogus")
              => jout.action = "none"

\* C6 (amended): judge() always returns a Judgment whose classification and
\* action are in their enums and whose confidence is in [0,1]; when the
\* backend's answer is accepted (parsed and validated without error), an
\* out-of-enum classification comes back as unknown unless the activity matches
\* a distraction keyword (then off_task), and an out-of-enum action comes back
\* as none unless the keyword override fired (then yell, or warn in cooldown).
C6_ValidJudgment ==
    Called =>
        /\ jout.classification \in Classifications
        /\ jout.action \in Actions
        /\ jout.confidence >= 0 /\ jout.confidence <= 100
        /\ (~ShortCircuited /\ LastAccepted
            /\ jcalls[Len(jcalls)].classification = "bogus")
              => jout.classification = IF OnDistraction THEN "off_task" ELSE "unknown"
        /\ (~ShortCircuited /\ LastAccepted
            /\ jcalls[Len(jcalls)].action = "bogus")
              => \/ jout.action = "none"
                 \/ /\ OnDistraction
                    /\ jcalls[Len(jcalls)].classification # "off_task"
                    /\ jout.action = IF InCooldown THEN "warn" ELSE "yell"

C6_Witness ==
    /\ Called /\ ~ShortCircuited /\ LastAccepted
    /\ jcalls[Len(jcalls)].classification = "bogus"
    /\ jcalls[Len(jcalls)].action = "bogus"
    /\ jcalls[Len(jcalls)].confidence = 150
    /\ ~OnDistraction
    /\ jout = Judgment("unknown", 100, "", "none")

\* C7: one judge() call invokes the backend at most twice; the second
\* invocation happens only after the first answer failed to parse as JSON; when
\* the retry fails too, or the first invocation raised, the rule-based
\* fallback verdict is returned with no further invocation.
RetryFailed(d) == d.kind \in {"error", "not_json"} \/ ~Accepted(d)

C7_AtMostOneRetry ==
    (Called /\ ~ShortCircuited) =>
        /\ Len(jcalls) <= 2
        /\ Len(jcalls) = 2 => jcalls[1].kind = "not_json"
        /\ (Len(jcalls) >= 1 /\ jcalls[1].kind = "error")
              => (Len(jcalls) = 1 /\ jout = _judge_fallback(jin.activity))
        /\ (Len(jcalls) = 2 /\ RetryFailed(jcalls[2]))
              => jout = _judge_fallback(jin.activity)

C7_Witness ==
    /\ Called /\ ~ShortCircuited
    /\ Len(jcalls) = 2 /\ jcalls[1].kind = "not_json" /\ jcalls[2].kind = "not_json"
    /\ jout = _judge_fallback(jin.activity)

\* C8: an AFK activity is returned as idle, confidence 1.0, action none, also
\* when is_thinking is set or the window is a distraction; a non-AFK thinking
\* activity is returned as thinking with action none; neither calls the backend.
C8_ShortCircuit ==
    Called =>
        /\ jin.activity.is_afk
              => (jout = Judgment("idle", 100, "", "none") /\ jcalls = << >>)
        /\ (~jin.activity.is_afk /\ jin.activity.is_thinking)
              => (/\ jout.classification = "thinking"
                  /\ jout.action = "none"
                  /\ jcalls = << >>)

C8_Witness ==
    /\ Called /\ jin.activity.is_afk /\ jin.activity.is_thinking
    /\ OnDistraction /\ backend # "none" /\ InCooldown
    /\ jout.classification = "idle"

-----------------------------------------------------------------------------
(* Claims about the Pomodoro timer (SpecPomodoro)                          *)

\* the tick thread t has counted a work period down to 0 and is about to
\* run _complete_work, while the caller is inside no control call
WorkCountedDown(t) ==
    /\ pomo_pc[t] = "complete_work"
    /\ current_state = "work"
    /\ time_remaining_seconds = 0
    /\ pomo_pc[Caller] = "idle"
    /\ pomodoros_completed < MaxPomodoros

\* C1: when a work period has counted down to 0 with no control call
\* interleaved, the tick loop itself can make the move to the break: its
\* _complete_work step (pomodoros_completed + 1, the break's state and
\* duration, on_complete and on_state_change) is enabled.
C1_TickLoopCompletesWork ==
    \A t \in TimerThreads : WorkCountedDown(t) => ENABLED _complete_work(t)

\* pause() was the last call made and has returned, on a timer that was not
\* stopped
PausedByLastCall == pomo_op = "pause" /\ pomo_pc[Caller] = "idle" /\ is_paused

\* C13: after Pause() has returned, and until another control call is made,
\* is_paused stays true and no tick thread changes time_remaining_seconds
\* (a second Pause() finds the value the first one left).
C13_NoTickAfterPause ==
    [][(PausedByLastCall /\ PausedByLastCall')
          => time_remaining_seconds' = time_remaining_seconds]_vars

\* start_work() was the last call made and has returned
StartWorkReturned == pomo_op = "start" /\ pomo_pc[Caller] = "idle" /\ current_state = "work"

\* no tick thread has counted the current period down twice: less than a
\* full tick period has gone by since the period began
WithinOneTickPeriod ==
    Duration(current_state) - time_remaining_seconds = Cardinality(period_tickers)

\* C14: after StartWork() has returned and before a full tick period has
\* elapsed, current_state is work, is_paused is false and
\* time_remaining_seconds is work_duration_minutes * 60 or one less.
C14_StartWorkFreshTime ==
    (StartWorkReturned /\ WithinOneTickPeriod)
        => /\ ~is_paused
           /\ time_remaining_seconds >= Duration("work") - 1

\* the step is the locked part of stop()
StopStep == pomo_pc[Caller] = "idle" /\ pomo_pc'[Caller] = "stop_join" /\ pomo_op' = "stop"

\* stop() was the last call made and has returned
StopReturned == pomo_op = "stop" /\ pomo_pc[Caller] = "idle"

\* C15: Stop() leaves stopped / 0 / not paused; on an already stopped timer
\* it changes no state field and fires no callback; after it has returned no
\* tick thread changes a state field or fires a callback.
C15_StopForcesAndIsIdempotent ==
    [][/\ StopStep =>
             /\ current_state' = "stopped"
             /\ time_remaining_seconds' = 0
             /\ is_paused' = FALSE
             /\ current_state = "stopped" =>
                   /\ UNCHANGED <<current_state, time_remaining_seconds, is_paused,
                                  pomodoros_completed>>
                   /\ fired' = << >>
       /\ (StopReturned /\ StopReturned') =>
             /\ UNCHANGED <<current_state, time_remaining_seconds, is_paused,
                            pomodoros_completed>>
             /\ fired' = << >>]_vars

\* C19: time_remaining_seconds is never negative.
C19_TimeNeverNegative == time_remaining_seconds >= 0

\* a tick thread has met 0 on a zero-minute period
C19_Witness ==
    /\ current_state = "short_break"
    /\ time_remaining_seconds = 0
    /\ \E t \in TimerThreads : pomo_pc[t] = "handle_completion"

\* C20: no thread waits for self._lock while holding it (so every call can
\* get the lock in the end).
C20_NoThreadWaitsForItsOwnLock ==
    \A p \in PomoProcs :
        ~(pomo_pc[p] \in {"complete_work", "complete_break"} /\ timer_lock = p)

-----------------------------------------------------------------------------
(* Claims about the controller's sessions (SpecSession)                    *)

\* the threads of one kind that are alive
Running(k) == {g \in Gens : workers_pc[k][g] # "dead"}

\* C4: at most one instance of each session worker (activity poller,
\* judging worker, reminder scheduler, Motivation Monitor loop) is running,
\* and no event on the queue was put by a worker whose session had ended or
\* been superseded.
C4_WorkersSuperseded ==
    /\ \A k \in WorkerKinds : Cardinality(Running(k)) <= 1
    /\ \A i \in 1..Len(event_queue) : ~event_queue[i].after_end

\* C5: when the handling of an on_task or thinking judgment is complete and
\* the drill worker was alive when it began, the handling has called
\* cancel_all() at least once and the drill worker has ended.
C5_StopCancelsDrill ==
    (ctl = "done" /\ ctl_class \in {"on_task", "thinking"} /\ drill_alive_at_start)
        => (cancel_calls >= 1 /\ ~IsDrillAlive)

\* C9: once _handle_judgment_update has handled an off_task judgment in an
\* active session, a drill worker is running.
C9_DrillRunsWhileOffTask ==
    (ctl = "done" /\ ctl_op = "judgment" /\ ctl_class = "off_task" /\ session_active)
        => IsDrillAlive

\* C10: only the thread that drains the event queue writes session state
\* (stats, current activity, last judgment).
C10_ControllerIsSoleWriter == state_writers \subseteq {Controller}

-----------------------------------------------------------------------------
(* Claims about the reminder worker (SpecReminder)                         *)

\* the absolute reminder times of the run, in ascending order
ReminderDues ==
    SortSeq([i \in 1..Len(rem_intervals) |-> rem_start + rem_intervals[i]],
            LAMBDA a, b : a < b)

\* the reminder times of the events pushed so far, in push order
PushedDues == [k \in 1..Len(rem_events) |-> rem_events[k].due]

-----------------------------------------------------------------------------
(* Claims about session accounting (SpecStats)                             *)

\* the first session, with the rule-based fallback and goal "write code", the
\* user at (Cursor, main.py) when it starts, and no other call made
CursorScenario ==
    /\ backend = "none"
    /\ st_sessions = 1
    /\ st_session_active
    /\ ~st_stop_event
    /\ goal = "write code"
    /\ st_calls = 0
    /\ st_windows[1] = CursorMain

EndSignalled ==
    st_ctl = "end_join" =>
        /\ st_session_active
        /\ st_stop_event
        /\ st_timer = "stopped"
        /\ st_drill = "running" => st_drill_stop
        /\ stats.start_time = st_sessions
        /\ ~stats.end_time

\* start_session is past the end_session it called
RestartEnded ==
    (st_ctl = "start" /\ st_restart) =>
        /\ ~st_session_active
        /\ Left(poller) /\ Left(judge_worker)
        /\ st_timer = "stopped"
        /\ st_drill = "running" => st_drill_stop
        /\ stats.start_time = st_sessions
        /\ stats.end_time
        /\ Len(session_logs) = st_sessions
        /\ session_logs[st_sessions] =
              [goal |-> goal, start_time |-> st_sessions, end_time |-> TRUE,
               restart |-> TRUE]

AccumulatingCounters ==
    {"focus_seconds", "idle_seconds", "off_task_seconds", "thinking_seconds",
     "distractions_count", "best_focus_streak_seconds", "pomodoros_completed"}

\* C16 as stated: between start_session and end_session no counter decreases,
\* current_focus_streak_seconds included.
C16_NoCounterDecreases ==
    [][ st_session_active =>
          \A c \in AccumulatingCounters \cup {"current_focus_streak_seconds"} :
             stats'[c] >= stats[c] ]_vars

\* C16: between start_session and end_session, end_session's finalization
\* included, focus_seconds, idle_seconds, off_task_seconds, thinking_seconds,
\* distractions_count, best_focus_streak_seconds and pomodoros_completed never
\* decrease; current_focus_streak_seconds decreases only by being reset to 0
\* in a judging cycle, and never exceeds best_focus_streak_seconds.
C16_AccumulatingCountersNeverDecrease ==
    [][ st_session_active =>
          /\ \A c \in AccumulatingCounters : stats'[c] >= stats[c]
          /\ stats'.current_focus_streak_seconds <= stats'.best_focus_streak_seconds
          /\ stats'.current_focus_streak_seconds < stats.current_focus_streak_seconds =>
                /\ stats'.current_focus_streak_seconds = 0
                /\ st_cycles' = st_cycles + 1 ]_vars

\* a focus streak was built and then reset by an idle cycle
C16_Witness ==
    /\ st_session_active
    /\ stats.focus_seconds > 0
    /\ stats.idle_seconds > 0
    /\ stats.current_focus_streak_seconds = 0
    /\ stats.best_focus_streak_seconds > 0

\* C17: end_session, pause_session, resume_session, change_goal and
\* report_distraction (called directly or by the voice command of the same
\* name) leave session_active, goal and every SessionStats field unchanged
\* when no session is active.
C17_NoSessionNoOp ==
    [][ ( /\ ~st_session_active
          /\ \/ AcctEndSession
             \/ pause_session
             \/ resume_session
             \/ \E g \in NewGoals : change_goal(g)
             \/ report_distraction )
        => UNCHANGED <<st_session_active, goal, stats>> ]_vars

-----------------------------------------------------------------------------
(* Further claims about the PomodoroTimer (SpecPomodoro)                   *)

\* the threads that are inside _timer_loop's while loop
TickLoops == {t \in TimerThreads : pomo_pc[t] \in {"check", "lock"}}

\* C24: at most one thread is inside _timer_loop at any time, and no
\* countdown has been decremented by two threads.
C24_OneTickLoop ==
    /\ Cardinality(TickLoops) <= 1
    /\ Cardinality(period_tickers) <= 1

\* C25: whenever is_paused is true current_state is not stopped and no tick
\* thread takes a second off time_remaining_seconds (the decrement is the
\* step that fires on_tick).
C25_PausedIsFrozenAndNotStopped ==
    [][is_paused => /\ current_state # "stopped"
                    /\ fired' # <<OnTick>>]_vars

\* C22: end_session's call of pomodoro.stop() returns in every timer state,
\* also after a countdown has run to zero: whenever no control call is in
\* progress, stop() can take self._lock at once, or the thread that holds
\* the lock is one that will release it.
C22_EndSessionStopReturns ==
    pomo_pc[Caller] = "idle" =>
        \/ ENABLED stop
        \/ timer_lock \in TimerThreads /\ ~Blocked(timer_lock)

-----------------------------------------------------------------------------
(* Further claims about judge() (SpecJudge)                                *)

\* C26: every judge() call on a non-AFK, non-thinking activity appends one
\* "app:classification" entry for the returned verdict to activity_pattern
\* and moves consecutive_off_task_count (+1 for off_task, else 0), on the
\* backend path and on the fallback path alike.
C26_EveryVerdictTracked ==
    [][(jin = NoCall /\ jin' # NoCall
        /\ ~jin'.activity.is_afk /\ ~jin'.activity.is_thinking)
          => /\ activity_pattern' =
                   _track_activity_pattern(activity_pattern, jin'.activity.app,
                                           jout'.classification)
             /\ consecutive_off_task_count' =
                   TrackCount(consecutive_off_task_count, jout'.classification)]_vars

-----------------------------------------------------------------------------
(* Further claims about the controller's sessions (SpecSession)            *)

\* the controller is inside no handler and the judgment it handled last was
\* on_task or thinking
BackOnTaskHandled == ctl = "idle" /\ last_judgment_obj \in {"on_task", "thinking"}

\* the step is the drill loop's tts_service.speak(phrase)
DrillSpeakStep == drill_pc = "phrase" /\ drill_pc' = "sleep"

\* C21: once the controller has finished handling an on_task or thinking
\* judgment, and until it handles the next off_task judgment, the drill loop
\* puts no utterance on the TTS queue.
C21_NoDrillUtteranceAfterOnTask ==
    [][DrillSpeakStep => ~BackOnTaskHandled]_vars

-----------------------------------------------------------------------------
(* Further claims about the session's judging (SpecStats)                  *)

\* the step is _handle_activity_update with the drill worker alive: it runs
\* _trigger_immediate_judgment on the thread of process_events_tick
ImmediateJudgment ==
    /\ st_ctl = "idle"
    /\ st_queue # << >>
    /\ Head(st_queue).type = "activity_update"
    /\ st_queue' = Tail(st_queue)
    /\ st_drill = "running"
    /\ st_session_active

\* judge(activity) invokes the AI backend
BackendCalls(activity) == \E out \in JudgeOutcomes(activity) : out.calls > 0

\* C27: no step of the thread that runs process_events_tick is a judge()
\* call that invokes the AI backend.
C27_NoBackendCallOnControllerThread ==
    [][ImmediateJudgment => ~BackendCalls(Head(st_queue).activity)]_vars

\* the step is the judging worker's judge() call with its put and stats update
JudgeWorkerStep == judge_worker.pc = "judge" /\ judge_worker'.pc = "run"

\* C28: during a session activity_pattern and consecutive_off_task_count are
\* changed by steps of the judging worker only.
C28_OnlyJudgeWorkerTracks ==
    [][(st_session_active
        /\ <<activity_pattern, consecutive_off_task_count>>' #
              <<activity_pattern, consecutive_off_task_count>>)
          => JudgeWorkerStep]_vars

\* the step ends a cycle of the judging worker in which self.current_activity
\* was set; the worker's stop_event.wait(judge_interval) follows
CycleEnds == st_cycles' = st_cycles + 1

\* C29: with a current activity known, every cycle of the judging worker
\* calls judge() and puts a judgment_update on the queue: the first one, one
\* that finds a new app:title, and one that finds the activity unchanged a
\* judge interval after the last judgment.
C29_JudgesEveryInterval ==
    [][CycleEnds =>
          /\ Len(st_queue') = Len(st_queue) + 1
          /\ st_queue'[Len(st_queue')].type = "judgment_update"]_vars

\* C23: within a session two handled yell judgments are at least
\* cooldown_seconds apart: no judgment_update with action yell that the
\* judging worker produced less than cooldown_seconds after the last handled
\* yell is on the queue, where the controller's next tick handles and speaks
\* it.
C23_YellsCooldownApart ==
    \A i \in 1..Len(st_queue) :
        st_queue[i].type = "judgment_update" =>
            \/ st_queue[i].since_yell = 0
            \/ st_queue[i].since_yell >= config_cooldown_seconds

\* the sensor reports the user away from the keyboard, and the poller's next
\* pass emits nothing: the activity it emitted last has the app and title
\* that are in front
PollerAtRest ==
    /\ st_session_active /\ ~st_stop_event
    /\ poller.pc = "run"
    /\ poller.last_activity # NoActivity
    /\ st_window.is_afk
    /\ st_window.app = poller.last_activity.app
    /\ st_window.title = poller.last_activity.title

\* C30: when the sensor reports is_afk for the app and title already in
\* front, the report still reaches the judging worker (so that an idle
\* judgment is produced and idle_seconds grows): the poller never comes to
\* rest on a last emitted activity that lacks the flag.
C30_AfkReportReachesJudge ==
    PollerAtRest => poller.last_activity.is_afk

-----------------------------------------------------------------------------
(* Claims about the judging worker's time accounting                       *)

\* the four time counters of SessionStats
TimeCounters == {"focus_seconds", "idle_seconds", "off_task_seconds", "thinking_seconds"}

\* the counter a cycle with current judgment j is to credit ("none": no counter)
Credited(j) ==
    IF j.action \in {"warn", "yell"} THEN "off_task_seconds"
    ELSE CASE j.classification = "on_task" -> "focus_seconds"
           [] j.classification = "thinking" -> "thinking_seconds"
           [] j.classification = "idle" -> "idle_seconds"
           [] j.classification = "off_task" -> "off_task_seconds"
           [] OTHER -> "none"

\* C31: a judging-worker cycle with current judgment jout credits at most one
\* time counter, by exactly judge_interval_sec: off_task_seconds for a warn
\* or yell action whatever the classification, else the counter of the
\* classification (none for unknown); the other time counters keep their
\* values.
C31_OneCounterPerCycle ==
    [][(jin # NoCall /\ st_cycles' = st_cycles + 1) =>
          \A c \in TimeCounters :
             stats'[c] = stats[c] + (IF c = Credited(jout) THEN judge_interval_sec ELSE 0)]_vars

\* a warn verdict with classification unknown has been credited to off-task
\* time, and a second cycle has credited it again
C31_Witness ==
    /\ jin # NoCall
    /\ jout.classification = "unknown" /\ jout.action = "warn"
    /\ st_cycles = 2
    /\ stats.off_task_seconds = 2 * judge_interval_sec
    /\ stats.focus_seconds = 0 /\ stats.idle_seconds = 0 /\ stats.thinking_seconds = 0

-----------------------------------------------------------------------------
(* Further claims about the session's accounting (SpecStats)               *)

\* C32: after a judging-worker cycle whose current judgment is off_task or
\* idle, current_focus_streak_seconds is 0, whatever the judgment's action.
C32_StreakResetOnOffTaskOrIdle ==
    [][(CycleEnds /\ judge_worker'.current_judgment.classification \in {"off_task", "idle"})
          => stats'.current_focus_streak_seconds = 0]_vars

-----------------------------------------------------------------------------
(* Claims about skip() (SpecPomodoro)                                      *)

\* the callbacks of one kind among those a step fired
FiredOf(cb) == {i \in 1..Len(fired') : fired'[i].cb = cb}

StartReturns == st_ctl = "start" /\ st_ctl' = "idle"

\* C34: when start_session returns every SessionStats counter is 0 and every
\* log empty, activity_pattern is empty and consecutive_off_task_count 0,
\* last_yell_time is None, the last judgment that the state snapshot shows
\* (state.last_judgment, set together with state.last_judgment_obj) is unset,
\* and the event queue is empty.
C34_StartSessionResets ==
    [][StartReturns =>
          /\ stats' = SessionStats(stats'.start_time)
          /\ activity_pattern' = << >>
          /\ consecutive_off_task_count' = 0
          /\ st_last_yell_time' = NoneTime
          /\ st_last_judgment_obj' = NoJudgment
          /\ st_queue' = << >>]_vars

\* the step is end_session's finalization of a session that has a start_time
EndFinalizes == st_ctl = "end_join" /\ st_ctl' # "end_join" /\ stats.start_time # 0

\* C35: the pomodoros_completed of a session's finalized stats is the number
\* of work periods completed during that session, which is what
\* _on_pomodoro_complete has counted on the session's SessionStats since
\* start_session created it.
C35_FinalPomodorosAreTheSessions ==
    [][EndFinalizes => stats'.pomodoros_completed = stats.pomodoros_completed]_vars

\* ---------------------------------------------------------------------------
\* Claims about the snapshots handed out for reading (SpecStats)
\* ---------------------------------------------------------------------------

\* get_state_snapshot: the stats field of the returned ControllerState is
\* state.stats itself, the SessionStats object the workers and handlers write
\* into, and not a copy of it. What a reader finds in the stats of a snapshot
\* one step after it was taken: start_session binds state.stats to a new
\* object and leaves the one the snapshot holds as it was; every other step
\* that writes stats writes into the object the snapshot holds.
SnapshotStatsRead == IF StartReturns THEN stats ELSE stats'

\* C36: a snapshot returned by get_state_snapshot keeps the values it had when
\* it was taken, its stats included: no later cycle of a worker, handled event
\* or session operation changes what its holder reads in it.
C36_SnapshotKeepsItsValues ==
    [][st_session_active => SnapshotStatsRead = stats]_vars

\* ---------------------------------------------------------------------------
\* Claims about the Motivation Monitor (SpecMotivation)
\* ---------------------------------------------------------------------------

\* the check of this step gave a phrase to tts_service.speak
MonitorSpeaks == Len(mon_spoken') > Len(mon_spoken)

\* C37: the monitor speaks after a check only if the detected state's
\* should_interrupt() is true: never in state flow, and never in state
\* productive with a confidence below 0.8.
C37_SpeaksOnlyIfShouldInterrupt ==
    [][MonitorSpeaks => should_interrupt(mon_current_state')]_vars

\* ---------------------------------------------------------------------------
\* Claims about the recency buffers (SpecRecency)
\* ---------------------------------------------------------------------------

\* the classification recorded in a pattern entry
ClassOf(entry) ==
    CHOOSE c \in Classifications :
        \E pair \in JudgedPairs : pair[2] = c /\ entry = pair[1] \o ":" \o c

\* how many of the 10 most recent entries (of all, when there are fewer)
\* carry the classification off_task
OffTaskAmongRecent(pattern) ==
    Cardinality({i \in 1..Len(pattern) :
                    i > Len(pattern) - DriftWindow /\ ClassOf(pattern[i]) = "off_task"})

\* the step is a judge() call of the backend path
JudgeTrackedStep == recorded' = recorded + 1 /\ activity_history' = activity_history

\* the step is a handled activity_update
HistoryStep == recorded' = recorded + 1 /\ activity_history' # activity_history

\* C39: detect_goal_drift() is true exactly when at least 6 of the 10 most
\* recent pattern entries carry the classification off_task, whatever the
\* apps of the entries are (and so false below 6 entries).
C39_DriftIffSixOfLastTen ==
    [][JudgeTrackedStep =>
          goal_drift' = (OffTaskAmongRecent(activity_pattern) >= DriftThreshold)]_vars

PollerRaised == worker_errors'.poller = worker_errors.poller + 1
JudgeRaised == worker_errors'.judge = worker_errors.judge + 1

\* C38: an exception raised inside an iteration of the activity poller or of
\* the judging worker is caught inside that worker and puts exactly one
\* error_event on the queue; the worker is then back at the top of its loop
\* for its next iteration, and a worker leaves its loop only when the stop
\* event is set.
C38_WorkerExceptionCaught ==
    [][/\ PollerRaised =>
            /\ st_queue' = Append(st_queue, ErrorEvent("Activity polling error"))
            /\ poller'.pc = "run"
       /\ JudgeRaised =>
            /\ st_queue' = Append(st_queue, ErrorEvent("Judge error"))
            /\ judge_worker'.pc = "run"
       /\ (poller.pc = "run" /\ poller'.pc # "run") => st_stop_event
       /\ (judge_worker.pc \in {"run", "judge"}
             /\ judge_worker'.pc \notin {"run", "judge"}) => st_stop_event]_vars

\* each worker has raised once; the poller has emitted an activity since and
\* the judging worker, after its exception, has judged it
C38_Witness ==
    /\ worker_errors = [poller |-> 1, judge |-> 1]
    /\ poller.pc = "run"
    /\ poller.last_activity # NoActivity
    /\ judge_worker.pc = "run"
    /\ Len(st_queue) = 2
    /\ st_queue[1] = ErrorEvent("Judge error")
    /\ st_queue[2].type = "judgment_update"

====
